---------------------------- MODULE Spec2Model ----------------------------
(***************************************************************************)
(* Verification model of the witness-testimony-prep application:           *)
(*   - parseJSONResponse, the four-strategy LLM response parser            *)
(*     (src/app/api/testimony/generate-questions/route.ts)                 *)
(*   - the question-generation and practice endpoints (POST handlers)      *)
(*   - the localStorage session repositories (session-storage.ts and       *)
(*     deposition-storage.ts)                                              *)
(*   - two browser tabs running addDocument on the shared localStorage     *)
(*   - the usage tracker with its daily and per-session resets             *)
(*   - the usage statistics against the configured limits (DEMO_LIMITS)    *)
(*   - the OCR endpoint (src/app/api/testimony/ocr/route.ts)               *)
(*   - the login page's handleLogin (src/app/login/page.tsx)               *)
(* Text is modelled as a sequence of one-character strings; the character  *)
(* U+FEFF (byte-order mark) is written "BOM" and the backtick "BT".        *)
(***************************************************************************)
EXTENDS Integers, Sequences, FiniteSets, TLC

VARIABLES
    \* ---- parseJSONResponse run -------------------------------------------
    content,      \* the text handed to parseJSONResponse
    coreText,     \* the JSON text the input was built around
    wrap,         \* how the input was built: [kind, pre, post] around coreText
    stage,        \* position in parseJSONResponse: s1, s2, s3, s4, end, ret, exception
    result,       \* return value of parseJSONResponse
    tried,        \* strategies whose try-block has run
    threw,        \* strategies whose try-block threw
    wrongShape,   \* strategies whose JSON.parse succeeded with a non-array
    \* ---- one request to an API route --------------------------------------
    route,        \* "generate" or "practice" ("none" outside the endpoint runs)
    req,          \* the request body
    apiPc,        \* position in the POST handler
    llmCalls,     \* chatCompletion invocations made for this request
    llmReply,     \* what chatCompletion did: threw, or returned content and usage
    promptDocs,   \* the documents whose text is in the prompt sent to the LLM
    bodyDocs,     \* body.documents
    questions,    \* let questions
    usedFallback, \* let usedFallback
    tokensUsed,   \* let tokensUsed
    aiResponse,   \* let aiResponse (practice route)
    response,     \* the NextResponse returned
    uuidNext,     \* number of uuidv4() values handed out so far
    \* ---- calls of generateFallbackQuestions --------------------------------
    fbCalls,      \* the calls made, each [witnessName, documents, list]
    \* ---- the session repositories ----------------------------------------
    tool,         \* which repository module runs: "testimony" or "deposition"
    browser,      \* typeof window !== 'undefined'
    store,        \* localStorage's value under STORAGE_KEY
    now,          \* Date.now(), in hours
    quota,        \* room localStorage has for the value, in size units
    opsDone,      \* repository calls made so far
    lastOp,       \* the last repository call: its name, arguments, the store
                  \* before it, the outcome of its write and its return value
    \* ---- mutators running in several browser tabs --------------------------
    tabs,         \* per tab: where its addDocument call stands and what it loaded
    returned,     \* the addDocument calls that returned: [tab, session, document]
    \* ---- the usage tracker (usage-storage) ---------------------------------
    usage,        \* localStorage's token and OCR usage records, sessionStorage's
                  \* session id
    lastUsage,    \* the last usage call: its name, the records before it and
                  \* the record it returned
    limits,       \* DEMO_LIMITS, as read from the environment at load time
    \* ---- the OCR endpoint and the login page ------------------------------
    ocr,          \* one request to POST /api/testimony/ocr: the file, the
                  \* position in the handler, the OCR calls made, the response
    login         \* the login page: its state hooks, the key-verification
                  \* requests in flight, the timers set

parserVars == <<content, coreText, wrap, stage, result, tried, threw, wrongShape>>

apiVars == <<route, req, apiPc, llmCalls, llmReply, promptDocs, bodyDocs, questions,
             usedFallback, tokensUsed, aiResponse, response>>

repoVars == <<tool, browser, store, now, quota, opsDone, lastOp>>

tabVars == <<tabs, returned>>

usageVars == <<usage, lastUsage, limits>>

webVars == <<ocr, login>>

vars == <<parserVars, apiVars, uuidNext, fbCalls, repoVars, tabVars, usageVars, webVars>>

(***************************************************************************)
(* Bounds of the model.                                                    *)
(***************************************************************************)
MaxRawLen == 3

\* how many calls of generateFallbackQuestions one run of SpecFallback makes
MaxFallbackCalls == 2

(***************************************************************************)
(* Characters                                                              *)
(***************************************************************************)
\* JSON insignificant whitespace (ECMA-404): space, tab, line feed, carriage return.
JSONWhite == {" ", "\t", "\n", "\r"}

\* What String.prototype.trim and the regex class \s treat as white space:
\* JSON white space and, among others, U+FEFF.
JSWhite == JSONWhite \cup {"BOM"}

Digits == {"0", "1"}

SeqRange(s) == {s[i] : i \in 1..Len(s)}

\* s.substring(a - 1, b) for 1-based inclusive positions a..b
Slice(s, a, b) == IF a > b THEN <<>> ELSE SubSeq(s, a, b)

StartsWithAt(s, i, p) ==
    /\ i >= 1
    /\ i + Len(p) - 1 <= Len(s)
    /\ \A k \in 1..Len(p) : s[i + k - 1] = p[k]

(***************************************************************************)
(* JSON.parse: a recursive-descent reading of the JSON grammar.  A parsed  *)
(* value is [t |-> type, v |-> payload]: "arr" holds the element values,    *)
(* "obj" the members [k |-> key, v |-> value] in insertion order, "str" the *)
(* characters, "num" the digits, "bool" <<"true">> or <<"false">>, "null"   *)
(* nothing.  Escapes, fractions and exponents lie outside the alphabet.    *)
(***************************************************************************)
Undefined == [t |-> "undefined", v |-> <<>>]

ParseFail == [ok |-> FALSE, val |-> Undefined, pos |-> 0]

ParseOk(val, pos) == [ok |-> TRUE, val |-> val, pos |-> pos]

RECURSIVE SkipWs(_, _)
SkipWs(s, i) ==
    IF i <= Len(s) /\ s[i] \in JSONWhite THEN SkipWs(s, i + 1) ELSE i

RECURSIVE ScanDigits(_, _)
ScanDigits(s, i) ==
    IF i <= Len(s) /\ s[i] \in Digits THEN ScanDigits(s, i + 1) ELSE i

\* position of the closing quote of a string whose first character is at i,
\* or 0 when the string is unterminated or holds a control character
RECURSIVE ScanString(_, _)
ScanString(s, i) ==
    IF i > Len(s) THEN 0
    ELSE IF s[i] = "\"" THEN i
    ELSE IF s[i] \in {"\n", "\t", "\r", "\\"} THEN 0
    ELSE ScanString(s, i + 1)

ParseStringAt(s, i) ==
    IF i <= Len(s) /\ s[i] = "\""
    THEN LET q == ScanString(s, i + 1)
         IN  IF q = 0 THEN ParseFail
             ELSE ParseOk([t |-> "str", v |-> Slice(s, i + 1, q - 1)], q + 1)
    ELSE ParseFail

ParseNumberAt(s, i) ==
    LET j == IF i <= Len(s) /\ s[i] = "-" THEN i + 1 ELSE i
        e == ScanDigits(s, j)
    IN  IF e = j THEN ParseFail
        ELSE IF s[j] = "0" /\ e > j + 1 THEN ParseOk([t |-> "num", v |-> Slice(s, i, j)], j + 1)
        ELSE ParseOk([t |-> "num", v |-> Slice(s, i, e - 1)], e)

\* a duplicate key keeps its first position and takes the last value
SetMember(ms, k, v) ==
    IF \E n \in 1..Len(ms) : ms[n].k = k
    THEN [n \in 1..Len(ms) |-> IF ms[n].k = k THEN [k |-> k, v |-> v] ELSE ms[n]]
    ELSE Append(ms, [k |-> k, v |-> v])

RECURSIVE ParseValue(_, _), ParseElements(_, _, _), ParseMembers(_, _, _)
ParseValue(s, i) ==
    IF i > Len(s) THEN ParseFail
    ELSE IF s[i] = "[" THEN
        LET j == SkipWs(s, i + 1)
        IN  IF j <= Len(s) /\ s[j] = "]"
            THEN ParseOk([t |-> "arr", v |-> <<>>], j + 1)
            ELSE ParseElements(s, j, <<>>)
    ELSE IF s[i] = "{" THEN
        LET j == SkipWs(s, i + 1)
        IN  IF j <= Len(s) /\ s[j] = "}"
            THEN ParseOk([t |-> "obj", v |-> <<>>], j + 1)
            ELSE ParseMembers(s, j, <<>>)
    ELSE IF s[i] = "\"" THEN ParseStringAt(s, i)
    ELSE IF StartsWithAt(s, i, <<"t", "r", "u", "e">>)
        THEN ParseOk([t |-> "bool", v |-> <<"true">>], i + 4)
    ELSE IF StartsWithAt(s, i, <<"f", "a", "l", "s", "e">>)
        THEN ParseOk([t |-> "bool", v |-> <<"false">>], i + 5)
    ELSE IF StartsWithAt(s, i, <<"n", "u", "l", "l">>)
        THEN ParseOk([t |-> "null", v |-> <<>>], i + 4)
    ELSE ParseNumberAt(s, i)

ParseElements(s, i, acc) ==
    LET r == ParseValue(s, i)
    IN  IF ~r.ok THEN ParseFail
        ELSE LET j == SkipWs(s, r.pos)
             IN  IF j > Len(s) THEN ParseFail
                 ELSE IF s[j] = "," THEN ParseElements(s, SkipWs(s, j + 1), Append(acc, r.val))
                 ELSE IF s[j] = "]" THEN ParseOk([t |-> "arr", v |-> Append(acc, r.val)], j + 1)
                 ELSE ParseFail

ParseMembers(s, i, acc) ==
    LET k == ParseStringAt(s, i)
    IN  IF ~k.ok THEN ParseFail
        ELSE LET c == SkipWs(s, k.pos)
             IN  IF c > Len(s) \/ s[c] # ":" THEN ParseFail
                 ELSE LET r == ParseValue(s, SkipWs(s, c + 1))
                      IN  IF ~r.ok THEN ParseFail
                          ELSE LET j == SkipWs(s, r.pos)
                                   ms == SetMember(acc, k.val.v, r.val)
                               IN  IF j > Len(s) THEN ParseFail
                                   ELSE IF s[j] = "," THEN ParseMembers(s, SkipWs(s, j + 1), ms)
                                   ELSE IF s[j] = "}" THEN ParseOk([t |-> "obj", v |-> ms], j + 1)
                                   ELSE ParseFail

\* JSON.parse(text): [ok |-> FALSE] stands for the SyntaxError it throws
JSONparse(s) ==
    LET r == ParseValue(s, SkipWs(s, 1))
    IN  IF r.ok /\ SkipWs(s, r.pos) = Len(s) + 1
        THEN [ok |-> TRUE, val |-> r.val]
        ELSE [ok |-> FALSE, val |-> Undefined]


(***************************************************************************)
(* String and regular-expression helpers used by parseJSONResponse         *)
(***************************************************************************)
RECURSIVE SkipJSWs(_, _)
SkipJSWs(s, i) ==
    IF i <= Len(s) /\ s[i] \in JSWhite THEN SkipJSWs(s, i + 1) ELSE i

RECURSIVE SkipJSWsBack(_, _)
SkipJSWsBack(s, i) ==
    IF i >= 1 /\ s[i] \in JSWhite THEN SkipJSWsBack(s, i - 1) ELSE i

\* String.prototype.trim
Trim(s) == Slice(s, SkipJSWs(s, 1), SkipJSWsBack(s, Len(s)))

AllJSWsFrom(s, i) == \A k \in i..Len(s) : s[k] \in JSWhite

\* the backtick character is written "BT"
BT == "BT"

Fence == <<BT, BT, BT>>

\* case folding of the letters of the tag (the regexes carry the i flag)
Lower(c) ==
    IF c = "J" THEN "j" ELSE IF c = "S" THEN "s"
    ELSE IF c = "O" THEN "o" ELSE IF c = "N" THEN "n" ELSE c

JsonTagAt(s, i) ==
    /\ i + 3 <= Len(s)
    /\ <<Lower(s[i]), Lower(s[i + 1]), Lower(s[i + 2]), Lower(s[i + 3])>> = <<"j", "s", "o", "n">>

\* cleaned.replace(/^\uFEFF/, '')
StripBOM(s) == IF Len(s) >= 1 /\ s[1] = "BOM" THEN Tail(s) ELSE s

\* cleaned.replace(/^<BT><BT><BT>(?:json)?\s*\n?/i, '')
StripOpenFence(s) ==
    IF StartsWithAt(s, 1, Fence)
    THEN LET a == IF JsonTagAt(s, 4) THEN 8 ELSE 4
         IN  Slice(s, SkipJSWs(s, a), Len(s))
    ELSE s

\* whether /\n?<BT><BT><BT>\s*$/ matches starting at position i
CloseFenceAt(s, i) ==
    \/ StartsWithAt(s, i, <<"\n">> \o Fence) /\ AllJSWsFrom(s, i + 4)
    \/ StartsWithAt(s, i, Fence) /\ AllJSWsFrom(s, i + 3)

\* cleaned.replace(/\n?<BT><BT><BT>\s*$/i, ''): the leftmost match is removed
StripCloseFence(s) ==
    LET hits == {i \in 1..Len(s) : CloseFenceAt(s, i)}
    IN  IF hits = {} THEN s
        ELSE LET i == CHOOSE h \in hits : \A g \in hits : h <= g
             IN  Slice(s, 1, i - 1)

\* Strategy 2's cleaning, lines 68-72
Cleaned(c) == Trim(StripCloseFence(StripOpenFence(StripBOM(Trim(c)))))

\* a position where /\}\s*\]/ matches: the position of the closing bracket, or 0
CloseAt(s, k) ==
    IF k <= Len(s) /\ s[k] = "}"
    THEN LET m == SkipJSWs(s, k + 1)
         IN  IF m <= Len(s) /\ s[m] = "]" THEN m ELSE 0
    ELSE 0

\* whether /\[\s*\{[\s\S]*\}\s*\]/ matches starting at position i
ArrayMatchAt(s, i) ==
    /\ s[i] = "["
    /\ LET j == SkipJSWs(s, i + 1)
       IN  /\ j <= Len(s)
           /\ s[j] = "{"
           /\ \E k \in (j + 1)..Len(s) : CloseAt(s, k) # 0

\* content.match(/\[\s*\{[\s\S]*\}\s*\]/): leftmost start, greedy middle
ArrayMatch(s) ==
    LET hits == {i \in 1..Len(s) : ArrayMatchAt(s, i)}
    IN  IF hits = {} THEN [has |-> FALSE, text |-> <<>>]
        ELSE LET i  == CHOOSE h \in hits : \A g \in hits : h <= g
                 j  == SkipJSWs(s, i + 1)
                 ks == {k \in (j + 1)..Len(s) : CloseAt(s, k) # 0}
                 k  == CHOOSE x \in ks : \A y \in ks : y <= x
             IN  [has |-> TRUE, text |-> Slice(s, i, CloseAt(s, k))]

\* content.indexOf(ch) and content.lastIndexOf(ch), 1-based, 0 for -1
IndexOf(s, ch) ==
    LET hits == {i \in 1..Len(s) : s[i] = ch}
    IN  IF hits = {} THEN 0 ELSE CHOOSE h \in hits : \A g \in hits : h <= g

LastIndexOf(s, ch) ==
    LET hits == {i \in 1..Len(s) : s[i] = ch}
    IN  IF hits = {} THEN 0 ELSE CHOOSE h \in hits : \A g \in hits : g <= h

\* Strategy 4's slice with the closing bracket left out (substring(first, last))
BracketSlice_OffByOne(s) ==
    LET firstBracket == IndexOf(s, "[")
        lastBracket  == LastIndexOf(s, "]")
    IN  IF firstBracket # 0 /\ lastBracket # 0 /\ lastBracket > firstBracket
        THEN [has |-> TRUE, text |-> Slice(s, firstBracket, lastBracket - 1)]
        ELSE [has |-> FALSE, text |-> <<>>]

\* Strategy 4's slice, lines 93-96
BracketSlice(s) ==
    LET firstBracket == IndexOf(s, "[")
        lastBracket  == LastIndexOf(s, "]")
    IN  IF firstBracket # 0 /\ lastBracket # 0 /\ lastBracket > firstBracket
        THEN [has |-> TRUE, text |-> Slice(s, firstBracket, lastBracket)]
        ELSE [has |-> FALSE, text |-> <<>>]

\* the text strategy k hands to JSON.parse, if it hands any
StrategyText(k, c) ==
    CASE k = 1 -> [has |-> TRUE, text |-> c]
      [] k = 2 -> [has |-> TRUE, text |-> Cleaned(c)]
      [] k = 3 -> ArrayMatch(c)
      [] k = 4 -> BracketSlice(c)

\* a shape test that accepts whatever JSON.parse returned
IsArray_AnyShape(parsed) == parsed.ok

\* Array.isArray(parsed) on the outcome of JSON.parse
IsArray(parsed) == parsed.ok /\ parsed.val.t = "arr"

\* only the first strategy guarded by a try/catch
Caught_OnlyFirst(k) == k = 1

\* every strategy's body sits in its own try { ... } catch { }
Caught(k) == k \in {1, 2, 3, 4}

StageOf(k) == <<"s1", "s2", "s3", "s4">>[k]

NextStage(k) == <<"s2", "s3", "s4", "end">>[k]

NullResult == [isNull |-> TRUE, val |-> Undefined]

(***************************************************************************)
(* parseJSONResponse, one step per strategy                                *)
(***************************************************************************)
\* what strategy k does on text c
StrategyOutcome(k, c) ==
    LET st == StrategyText(k, c)
        p  == IF st.has THEN JSONparse(st.text) ELSE [ok |-> FALSE, val |-> Undefined]
    IN  [array  |-> st.has /\ IsArray(p),
         val    |-> p.val,
         thrown |-> st.has /\ ~p.ok,
         other  |-> st.has /\ p.ok /\ p.val.t # "arr"]

Strategy(k) ==
    /\ stage = StageOf(k)
    /\ LET o == StrategyOutcome(k, content)
       IN  /\ tried' = tried \cup {k}
           /\ threw' = IF o.thrown THEN threw \cup {k} ELSE threw
           /\ wrongShape' = IF o.other THEN wrongShape \cup {k} ELSE wrongShape
           /\ IF o.array
              THEN /\ result' = [isNull |-> FALSE, val |-> o.val]
                   /\ stage' = "ret"
              ELSE /\ result' = result
                   /\ stage' = IF o.thrown /\ ~Caught(k) THEN "exception" ELSE NextStage(k)
    /\ UNCHANGED <<content, coreText, wrap>>
    /\ UNCHANGED <<apiVars, uuidNext, fbCalls, repoVars, tabVars, usageVars, webVars>>

Strategy1 == Strategy(1)
Strategy2 == Strategy(2)
Strategy3 == Strategy(3)
Strategy4 == Strategy(4)

\* line 104: return null
ReturnNull ==
    /\ stage = "end"
    /\ result' = NullResult
    /\ stage' = "ret"
    /\ UNCHANGED <<content, coreText, wrap, tried, threw, wrongShape>>
    /\ UNCHANGED <<apiVars, uuidNext, fbCalls, repoVars, tabVars, usageVars, webVars>>

\* parseJSONResponse(c) run to its end: [kind |-> "array", val], "null", or
\* "exception" when a throw escapes
RECURSIVE RunStrategies(_, _), AfterStrategy(_, _, _)
RunStrategies(k, c) ==
    IF k > 4 THEN [kind |-> "null", val |-> Undefined]
    ELSE AfterStrategy(k, c, StrategyOutcome(k, c))

\* return the array, or go on to the next strategy
AfterStrategy(k, c, o) ==
    IF o.array THEN [kind |-> "array", val |-> o.val]
    ELSE IF o.thrown /\ ~Caught(k) THEN [kind |-> "exception", val |-> Undefined]
    ELSE RunStrategies(k + 1, c)

parseJSONResponse(c) == RunStrategies(1, c)

(***************************************************************************)
(* Property names and enumeration texts of the source, spelled out          *)
(***************************************************************************)
K_true == <<"t", "r", "u", "e">>

K_false == <<"f", "a", "l", "s", "e">>

K_null == <<"n", "u", "l", "l">>

K_undefined == <<"u", "n", "d", "e", "f", "i", "n", "e", "d">>

K_objectObject == <<"[", "o", "b", "j", "e", "c", "t", " ", "O", "b", "j", "e", "c", "t", "]">>

K_question == <<"q", "u", "e", "s", "t", "i", "o", "n">>

K_category == <<"c", "a", "t", "e", "g", "o", "r", "y">>

K_difficulty == <<"d", "i", "f", "f", "i", "c", "u", "l", "t", "y">>

K_suggestedApproach == <<"s", "u", "g", "g", "e", "s", "t", "e", "d", "A", "p", "p", "r", "o", "a", "c", "h">>

K_weakPoint == <<"w", "e", "a", "k", "P", "o", "i", "n", "t">>

K_followUpQuestions == <<"f", "o", "l", "l", "o", "w", "U", "p", "Q", "u", "e", "s", "t", "i", "o", "n", "s">>

K_documentReference == <<"d", "o", "c", "u", "m", "e", "n", "t", "R", "e", "f", "e", "r", "e", "n", "c", "e">>

K_followUp == <<"f", "o", "l", "l", "o", "w", "U", "p">>

K_feedback == <<"f", "e", "e", "d", "b", "a", "c", "k">>

K_weaknessIdentified == <<"w", "e", "a", "k", "n", "e", "s", "s", "I", "d", "e", "n", "t", "i", "f", "i", "e", "d">>

K_suggestedImprovement == <<"s", "u", "g", "g", "e", "s", "t", "e", "d", "I", "m", "p", "r", "o", "v", "e", "m", "e", "n", "t">>

C_timeline == <<"t", "i", "m", "e", "l", "i", "n", "e">>

C_credibility == <<"c", "r", "e", "d", "i", "b", "i", "l", "i", "t", "y">>

C_inconsistency == <<"i", "n", "c", "o", "n", "s", "i", "s", "t", "e", "n", "c", "y">>

C_foundation == <<"f", "o", "u", "n", "d", "a", "t", "i", "o", "n">>

C_impeachment == <<"i", "m", "p", "e", "a", "c", "h", "m", "e", "n", "t">>

C_general == <<"g", "e", "n", "e", "r", "a", "l">>

D_easy == <<"e", "a", "s", "y">>

D_medium == <<"m", "e", "d", "i", "u", "m">>

D_hard == <<"h", "a", "r", "d">>

(***************************************************************************)
(* JavaScript value helpers used by the POST handlers.  A text the source  *)
(* holds as a fixed literal and never inspects is written as a one-element *)
(* sequence naming it (Lit); texts that are compared character by          *)
(* character are spelled out.                                              *)
(***************************************************************************)
Lit(name) == <<name>>

Str(chars) == [t |-> "str", v |-> chars]

\* an optional field: present with a value, or absent (undefined)
Some(x) == [has |-> TRUE, v |-> x]

None == [has |-> FALSE, v |-> <<>>]

\* qObj[key] on a parsed JSON value: only objects have own members
Get(q, key) ==
    IF q.t = "obj" /\ \E n \in 1..Len(q.v) : q.v[n].k = key
    THEN q.v[CHOOSE n \in 1..Len(q.v) : q.v[n].k = key].v
    ELSE Undefined

\* ToBoolean
Truthy(x) ==
    CASE x.t \in {"undefined", "null"} -> FALSE
      [] x.t = "bool" -> x.v = <<"true">>
      [] x.t = "num"  -> x.v \notin {<<"0">>, <<"-", "0">>}
      [] x.t = "str"  -> x.v # <<>>
      [] OTHER        -> TRUE

\* a || b
Or(a, b) == IF Truthy(a) THEN a ELSE b

\* String(x)
RECURSIVE JSString(_), JoinValues(_)
JSString(x) ==
    CASE x.t = "str"  -> x.v
      [] x.t = "num"  -> IF x.v = <<"-", "0">> THEN <<"0">> ELSE x.v
      [] x.t = "bool" -> IF x.v = <<"true">> THEN K_true ELSE K_false
      [] x.t = "null" -> K_null
      [] x.t = "undefined" -> K_undefined
      [] x.t = "obj"  -> K_objectObject
      [] x.t = "arr"  -> JoinValues(x.v)

\* Array.prototype.join(","): null and undefined elements give the empty text
JoinValues(xs) ==
    IF xs = <<>> THEN <<>>
    ELSE LET h == IF Head(xs).t \in {"null", "undefined"} THEN <<>> ELSE JSString(Head(xs))
         IN  IF Len(xs) = 1 THEN h ELSE h \o <<",">> \o JoinValues(Tail(xs))

\* is the request field falsy: undefined, or the empty text
Falsy(f) == ~f.has \/ f.v = <<>>

(***************************************************************************)
(* validateCategory, validateDifficulty                                    *)
(***************************************************************************)
ValidCategories == {C_timeline, C_credibility, C_inconsistency, C_foundation,
                    C_impeachment, C_general}

ValidDifficulties == {D_easy, D_medium, D_hard}

validateCategory(category) ==
    IF category \in ValidCategories THEN category ELSE C_general

validateDifficulty(difficulty) ==
    IF difficulty \in ValidDifficulties THEN difficulty ELSE D_medium

(***************************************************************************)
(* generateFallbackQuestions                                               *)
(***************************************************************************)
\* uuidv4(): the n-th value handed out; distinct calls give distinct values
Uuid(n) == n

\* documents.map(d => d.name).join(', ')
RECURSIVE JoinNames(_)
JoinNames(docs) ==
    IF docs = <<>> THEN <<>>
    ELSE IF Len(docs) = 1 THEN docs[1].name
    ELSE docs[1].name \o <<",", " ">> \o JoinNames(Tail(docs))

\* line 109
DocNames(docs) == IF JoinNames(docs) = <<>> THEN Lit("the documents") ELSE JoinNames(docs)

FallbackCategory ==
    << C_timeline, C_credibility, C_credibility, C_timeline, C_inconsistency,
       C_foundation, C_foundation, C_foundation, C_inconsistency, C_foundation,
       C_timeline, C_credibility, C_foundation, C_inconsistency, C_foundation,
       C_general, C_general, C_general, C_general, C_general >>

FallbackDifficulty ==
    << D_medium, D_hard, D_medium, D_medium, D_hard,
       D_medium, D_easy, D_medium, D_hard, D_medium,
       D_medium, D_easy, D_hard, D_hard, D_medium,
       D_easy, D_easy, D_easy, D_medium, D_hard >>

FallbackCount == 20

\* items 1 to 15 cite the documents, items 16 to 20 are general
DocumentSpecificCount == 15

IdOfItem(base, n) == Uuid(base + n - 1)

\* the n-th element of the literal returned at lines 111-313; the item's
\* fixed texts are named by their position
FallbackItem(n, docs, id) ==
    [id                |-> id,
     question          |-> Lit("fallback question " \o ToString(n)),
     category          |-> FallbackCategory[n],
     difficulty        |-> FallbackDifficulty[n],
     suggestedApproach |-> Some(Lit("fallback approach " \o ToString(n))),
     weakPoint         |-> Some(Lit("fallback weak point " \o ToString(n))),
     followUpQuestions |-> Some(<<Lit("fallback follow-up 1 of " \o ToString(n)),
                                     Lit("fallback follow-up 2 of " \o ToString(n))>>),
     documentReference |-> Some(IF n <= DocumentSpecificCount THEN DocNames(docs)
                                ELSE Lit("General Cross-Examination"))]

\* a fallback list whose items all carry one id
generateFallbackQuestions_SharedId(witnessName, docs, base) ==
    [n \in 1..FallbackCount |-> FallbackItem(n, docs, Uuid(base))]

\* generateFallbackQuestions(witnessName, documents), with base the number
\* of uuidv4() values handed out before the call
generateFallbackQuestions(witnessName, docs, base) ==
    [n \in 1..FallbackCount |-> FallbackItem(n, docs, IdOfItem(base, n))]

(***************************************************************************)
(* Idle values: what a component's variables hold in the runs of another    *)
(***************************************************************************)
NoResponse == [status |-> 0, error |-> "", questions |-> <<>>, tokensUsed |-> 0,
               usedFallback |-> FALSE, aiResponse |-> Undefined]

NoReply == [kind |-> "none", content |-> <<>>, tokens |-> 0]

NoRequest == [kind |-> "none"]

\* no request at the OCR endpoint
NoOcr == [pc |-> "idle"]

\* the login page is not mounted
NoLogin == [pc |-> "idle"]

WebIdle ==
    /\ ocr = NoOcr
    /\ login = NoLogin

ApiIdle ==
    /\ route = "none"
    /\ req = NoRequest
    /\ apiPc = "idle"
    /\ llmCalls = 0
    /\ llmReply = NoReply
    /\ promptDocs = <<>>
    /\ bodyDocs = <<>>
    /\ questions = <<>>
    /\ usedFallback = FALSE
    /\ tokensUsed = 0
    /\ aiResponse = Undefined
    /\ response = NoResponse

\* localStorage.getItem(STORAGE_KEY) === null
Absent == [kind |-> "absent", entries |-> <<>>]

NoReturn == [kind |-> "none"]

\* the updates argument of a call that takes none
NoUpdates == [none |-> TRUE]

\* no call yet; prev of a call is the call before it when that was a create,
\* an update or a delete (the writes a later call is compared with)
NoOp == [op |-> "none", id |-> -1, updates |-> NoUpdates, at |-> 0, wrote |-> "none",
         ret |-> NoReturn, before |-> Absent, prev |-> <<>>]

\* no tab has called a mutator
TabsIdle ==
    /\ tabs = <<>>
    /\ returned = <<>>

\* localStorage.getItem(TOKEN_USAGE_KEY) === null, and the same for the OCR
\* key and for sessionStorage's session id
NoRecord == [kind |-> "absent"]

\* nothing stored by the usage tracker
NoUsage == [token |-> NoRecord, ocr |-> NoRecord, userId |-> NoRecord, sessionId |-> NoRecord]

NoUsageCall == [op |-> "none", key |-> "none", before |-> NoUsage, at |-> 0, ret |-> NoRecord]

\* DEMO_LIMITS with no environment variable set
DefaultLimits ==
    [perRequest |-> 4000, perSession |-> 50000, perDayPerUser |-> 100000,
     maxFileSize |-> 5 * 1024 * 1024, maxPagesPerDocument |-> 10,
     maxDocumentsPerSession |-> 5, maxPagesPerDay |-> 50]

UsageIdle ==
    /\ usage = NoUsage
    /\ lastUsage = NoUsageCall
    /\ limits = DefaultLimits

RepoIdle ==
    /\ tool = "none"
    /\ browser = FALSE
    /\ store = Absent
    /\ now = 0
    /\ quota = 0
    /\ opsDone = 0
    /\ lastOp = NoOp
    /\ TabsIdle
    /\ UsageIdle

ParserIdle ==
    /\ content = <<>>
    /\ coreText = <<>>
    /\ wrap = [kind |-> "none", pre |-> <<>>, post |-> <<>>]
    /\ stage = "idle"
    /\ result = [isNull |-> TRUE, val |-> Undefined]
    /\ tried = {}
    /\ threw = {}
    /\ wrongShape = {}

(***************************************************************************)
(* Inputs of parseJSONResponse                                             *)
(***************************************************************************)
\* texts that are JSON arrays
ArrayTexts ==
    { <<"[", "]">>,                                          \* []
      <<"[", "1", "]">>,                                     \* [1]
      <<"[", "{", "}", "]">>,                                \* [{}]
      <<"[", " ", "{", "}", "\n", "]">>,                     \* [ {}\n]
      <<"[", "{", "}", ",", "{", "}", "]">>,                 \* [{},{}]
      <<"[", "1", ",", "{", "}", "]">>,                      \* [1,{}]
      <<"[", "{", "\"", "a", "\"", ":", "1", "}", "]">>,     \* [{"a":1}]
      <<"[", "n", "u", "l", "l", "]">>,                      \* [null]
      <<"[", "[", "{", "}", "]", "]">>,                      \* [[{}]]
      <<"[", "[", "{", "}", "]", ",", "[", "{", "}", "]", "]">>,   \* [[{}],[{}]]
      <<"[", "\"", "[", "{", "}", "]", "\"", "]">> }         \* ["[{}]"]

\* texts that are JSON of another shape, or no JSON at all
OtherTexts ==
    { <<"{", "}">>,                                          \* {}
      <<"{", "\"", "a", "\"", ":", "[", "1", "]", "}">>,     \* {"a":[1]}
      <<"{", "\"", "a", "\"", ":", "[", "{", "}", "]", "}">>,  \* {"a":[{}]}
      <<"1">>,                                               \* 1
      <<"\"", "a", "\"">>,                                   \* "a"
      <<"t", "r", "u", "e">>,                                \* true
      <<"n", "u", "l", "l">>,                                \* null
      <<"[", "1">>,                                          \* [1
      <<"[", "{", "1", "}", "]">>,                           \* [{1}]
      <<"x">>,
      <<>> }

CoreTexts == ArrayTexts \cup OtherTexts

Wrap(kind, pre, post) == [kind |-> kind, pre |-> pre, post |-> post]

JsonTag == <<"j", "s", "o", "n">>

FencedWraps ==
    { Wrap("fenced", Fence \o JsonTag \o <<"\n">>, <<"\n">> \o Fence),
      Wrap("fenced", Fence \o <<"\n">>, <<"\n">> \o Fence),
      Wrap("fenced", Fence \o <<"J", "S", "O", "N", "\n">>, <<"\n">> \o Fence \o <<"\n">>),
      Wrap("fenced", Fence \o JsonTag, Fence),
      Wrap("fenced", <<" ">> \o Fence \o JsonTag \o <<" ", "\n">>, <<"\n">> \o Fence \o <<" ">>) }

\* white space, a byte-order mark or half a fence around the text
PaddedWraps ==
    { Wrap("padded", <<" ", "\n">>, <<"\n">>),
      Wrap("padded", <<"BOM">>, <<>>),
      Wrap("padded", Fence \o JsonTag \o <<"\n">>, <<>>),
      Wrap("padded", <<>>, <<"\n">> \o Fence) }

ProseWraps ==
    { Wrap("prose", <<"x", " ">>, <<" ", "y">>),
      Wrap("prose", <<"x", ":", "\n">>, <<>>),
      Wrap("prose", <<>>, <<"\n", "y">>),
      Wrap("prose", <<"x", "\n">> \o Fence \o JsonTag \o <<"\n">>, <<"\n">> \o Fence),
      Wrap("prose", <<"{", "x", "}", " ">>, <<" ", "{", "y", "}">>),
      Wrap("prose", <<"[", "x", "]", " ">>, <<>>),
      Wrap("prose", <<>>, <<" ", "[", "y", "]">>),
      Wrap("prose", <<>>, <<" ", "{", "y", "}", "]">>) }

StrayChars == {"x", "1", ",", "\"", "{", "}", "[", "]", BT, "BOM"}

StrayWraps == {Wrap("stray", <<ch>>, <<>>) : ch \in StrayChars}

Wraps == {Wrap("plain", <<>>, <<>>)} \cup FencedWraps \cup PaddedWraps
             \cup ProseWraps \cup StrayWraps

\* every text over RawAlphabet of at most MaxRawLen characters
RawAlphabet == {"[", "]", "{", "}", "1", ",", " ", BT}

RawTexts == UNION {[1..n -> RawAlphabet] : n \in 0..MaxRawLen}

ParserInit ==
    /\ \/ \E core \in CoreTexts, w \in Wraps :
            /\ coreText = core
            /\ wrap = w
            /\ content = w.pre \o core \o w.post
       \/ \E raw \in RawTexts :
            /\ coreText = raw
            /\ wrap = Wrap("raw", <<>>, <<>>)
            /\ content = raw
    /\ stage = "s1"
    /\ result = NullResult
    /\ tried = {}
    /\ threw = {}
    /\ wrongShape = {}
    /\ ApiIdle
    /\ WebIdle
    /\ RepoIdle
    /\ uuidNext = 0
    /\ fbCalls = <<>>

ParserNext ==
    \/ Strategy1
    \/ Strategy2
    \/ Strategy3
    \/ Strategy4
    \/ ReturnNull

SpecParser == ParserInit /\ [][ParserNext]_vars

(***************************************************************************)
(* Claims about parseJSONResponse                                          *)
(***************************************************************************)
\* what strategy k yields on text c: an array, or nothing
Yields(k, c) ==
    LET st == StrategyText(k, c)
    IN  st.has /\ JSONparse(st.text).ok /\ JSONparse(st.text).val.t = "arr"

\* C1: parseJSONResponse never throws: it ends with an array or null; a
\* strategy that threw is followed by the next strategy; null is returned
\* only after all four strategies have run and none produced an array.
C1_NeverThrows ==
    /\ stage # "exception"
    /\ stage = "ret" => (result.isNull \/ result.val.t = "arr")
    /\ \A k \in threw : k < 4 /\ stage \in {"ret", "end"} => (k + 1) \in tried
    /\ stage = "ret" /\ result.isNull =>
          /\ tried = {1, 2, 3, 4}
          /\ \A k \in 1..4 : ~Yields(k, content)
    /\ stage = "ret" /\ (\A k \in 1..4 : ~Yields(k, content)) => result.isNull

\* strategies 1 to 3 threw and strategy 4 still produced the array
C1_Witness ==
    /\ stage = "ret"
    /\ threw = {1, 2, 3}
    /\ ~result.isNull

\* C2: a non-null return value is an array; a strategy whose JSON.parse gave
\* an object, string, number, boolean or null does not return it and the
\* next strategy runs.
C2_ArrayOnly ==
    /\ stage = "ret" /\ ~result.isNull => result.val.t = "arr"
    /\ \A k \in wrongShape :
          /\ stage # "exception"
          /\ k < 4 /\ stage \in {"ret", "end"} => (k + 1) \in tried

\* strategy 1 parsed an object, a later strategy returned an array
C2_Witness ==
    /\ stage = "ret"
    /\ 1 \in wrongShape
    /\ ~result.isNull
    /\ result.val.t = "arr"

BracketFree(s) == \A i \in 1..Len(s) : s[i] \notin {"[", "]"}

\* the text holds its outer pair of brackets and no other bracket
OneBracketPair(s) ==
    /\ Len(s) >= 2
    /\ s[1] = "["
    /\ s[Len(s)] = "]"
    /\ BracketFree(Slice(s, 2, Len(s) - 1))

ParsedCore == [isNull |-> FALSE, val |-> JSONparse(coreText).val]

DocA == [name |-> <<"A">>, content |-> Some(<<"T", "e", "x", "t">>)]

DocB == [name |-> <<"B">>, content |-> None]

DocUnnamed == [name |-> <<>>, content |-> Some(<<"T">>)]

NameFields == {None, Some(<<>>), Some(<<"J", "a", "n", "e">>)}

DocumentFields == {None, Some(<<>>), Some(<<DocA>>), Some(<<DocA, DocB>>), Some(<<DocUnnamed>>)}

\* request bodies of the generate-questions route; estimateTokens is not part
\* of the sources at hand, so whether the estimate exceeds the per-request
\* limit (line 370) is drawn with the request
GenRequests ==
    {[kind |-> "badjson"]} \cup
    {[kind |-> "json", witnessName |-> w, caseName |-> c, documents |-> d, overLimit |-> o] :
        w \in NameFields, c \in NameFields, d \in DocumentFields, o \in BOOLEAN}

RECURSIVE RepeatItems(_)
\* the text {},{},...,{} of n empty objects
RepeatItems(n) ==
    IF n = 1 THEN <<"{", "}">> ELSE <<"{", "}", ",">> \o RepeatItems(n - 1)

\* completions the LLM may return to the generate-questions route
GenContents ==
    { <<>>,
      <<"x">>,
      <<"{", "}">>,
      <<"[", "]">>,
      <<"[", "1", "]">>,
      <<"[", "n", "u", "l", "l", "]">>,
      <<"[", "{", "}", ",", "n", "u", "l", "l", "]">>,
      <<"[", "{", "}", "]">>,
      Fence \o JsonTag \o <<"\n", "[", "{", "}", ",", "{", "}", "]", "\n">> \o Fence,
      <<"[", "{", "\"", "q", "u", "e", "s", "t", "i", "o", "n", "\"", ":", "\"", "Q", "\"", ",", "\"", "c", "a", "t", "e", "g", "o", "r", "y", "\"", ":", "\"", "t", "i", "m", "e", "l", "i", "n", "e", "\"", ",", "\"", "d", "i", "f", "f", "i", "c", "u", "l", "t", "y", "\"", ":", "\"", "h", "a", "r", "d", "\"", ",", "\"", "w", "e", "a", "k", "P", "o", "i", "n", "t", "\"", ":", "\"", "w", "\"", ",", "\"", "f", "o", "l", "l", "o", "w", "U", "p", "Q", "u", "e", "s", "t", "i", "o", "n", "s", "\"", ":", "[", "\"", "f", "\"", ",", "1", "]", "}", "]">>,
      <<"[", "{", "\"", "c", "a", "t", "e", "g", "o", "r", "y", "\"", ":", "\"", "b", "o", "g", "u", "s", "\"", ",", "\"", "d", "i", "f", "f", "i", "c", "u", "l", "t", "y", "\"", ":", "1", ",", "\"", "q", "u", "e", "s", "t", "i", "o", "n", "\"", ":", "\"", "\"", "}", "]">>,
      <<"[", "{", "\"", "i", "d", "\"", ":", "\"", "x", "\"", ",", "\"", "q", "u", "e", "s", "t", "i", "o", "n", "\"", ":", "[", "]", "}", "]">>,
      <<"[">> \o RepeatItems(FallbackCount) \o <<"]">>,
      <<"[">> \o RepeatItems(FallbackCount + 1) \o <<"]">> }

UsageTokens == {0, 1500}

GenReplies ==
    {[kind |-> "throw", content |-> <<>>, tokens |-> 0],
     [kind |-> "undefined", content |-> <<>>, tokens |-> 0]} \cup
    {[kind |-> "ok", content |-> c, tokens |-> t] : c \in GenContents, t \in UsageTokens}

\* guards that let a request without documents through
GenRejection_NamesOnly(r) ==
    IF Falsy(r.witnessName) \/ Falsy(r.caseName)
    THEN "witnessName and caseName are required"
    ELSE ""

\* lines 332-344: the two guards that answer 400
GenRejection(r) ==
    IF Falsy(r.witnessName) \/ Falsy(r.caseName)
    THEN "witnessName and caseName are required"
    ELSE IF ~r.documents.has \/ Len(r.documents.v) = 0
    THEN "No documents provided. Please upload case materials first."
    ELSE ""

\* line 373-376: the copy of a document cut for the demo limit
TruncatedDoc(doc) ==
    IF doc.content.has /\ doc.content.v # <<>>
    THEN [doc EXCEPT !.content = Some(Lit("slice of content") \o Lit("... [truncated for demo]"))]
    ELSE doc

ErrorResponse(status, msg) == [NoResponse EXCEPT !.status = status, !.error = msg]

\* lines 328-387: read the body, validate, build the prompts
GenReceive ==
    /\ route = "generate"
    /\ apiPc = "start"
    /\ IF req.kind = "badjson"
       THEN /\ response' = ErrorResponse(500, "Failed to generate questions")
            /\ apiPc' = "done"
            /\ UNCHANGED <<promptDocs, bodyDocs>>
       ELSE IF GenRejection(req) # ""
       THEN /\ response' = ErrorResponse(400, GenRejection(req))
            /\ apiPc' = "done"
            /\ UNCHANGED <<promptDocs, bodyDocs>>
       ELSE /\ promptDocs' = req.documents.v
            /\ bodyDocs' = IF req.overLimit
                           THEN [n \in 1..Len(req.documents.v) |-> TruncatedDoc(req.documents.v[n])]
                           ELSE req.documents.v
            /\ apiPc' = "call"
            /\ UNCHANGED response
    /\ UNCHANGED <<route, req, llmCalls, llmReply, questions, usedFallback, tokensUsed, aiResponse>>
    /\ UNCHANGED <<parserVars, uuidNext, fbCalls, repoVars, tabVars, usageVars, webVars>>

\* lines 394-404: await chatCompletion(...)
GenCallLLM ==
    /\ route = "generate"
    /\ apiPc = "call"
    /\ llmCalls' = llmCalls + 1
    /\ apiPc' = "await"
    /\ UNCHANGED <<route, req, llmReply, promptDocs, bodyDocs, questions, usedFallback,
                   tokensUsed, aiResponse, response>>
    /\ UNCHANGED <<parserVars, uuidNext, fbCalls, repoVars, tabVars, usageVars, webVars>>

\* where the handler goes after the catch block of the LLM call
OnLLMError_Retry(calls) == IF calls < 2 THEN "call" ELSE "after"

\* lines 430-433 (generate) and 117-120 (practice): log and go on
OnLLMError(calls) == "after"

\* lines 413-427: one element of questionsData mapped to a question
MapItem(q, id) ==
    [id                |-> id,
     question          |-> JSString(Or(Get(q, K_question), Str(Lit("Question not available")))),
     category          |-> validateCategory(JSString(Or(Get(q, K_category), Str(C_general)))),
     difficulty        |-> validateDifficulty(JSString(Or(Get(q, K_difficulty), Str(D_medium)))),
     suggestedApproach |-> IF Truthy(Get(q, K_suggestedApproach))
                           THEN Some(JSString(Get(q, K_suggestedApproach))) ELSE None,
     weakPoint         |-> IF Truthy(Get(q, K_weakPoint))
                           THEN Some(JSString(Get(q, K_weakPoint))) ELSE None,
     followUpQuestions |-> IF Get(q, K_followUpQuestions).t = "arr"
                           THEN Some([n \in 1..Len(Get(q, K_followUpQuestions).v) |->
                                         JSString(Get(q, K_followUpQuestions).v[n])])
                           ELSE None,
     documentReference |-> IF Truthy(Get(q, K_documentReference))
                           THEN Some(JSString(Get(q, K_documentReference))) ELSE None]

\* questionsData.slice(0, 20)
FirstTwenty(items) == Slice(items, 1, IF Len(items) < FallbackCount THEN Len(items) ELSE FallbackCount)

\* reading a property of null throws a TypeError
ThrowsOnAccess(q) == q.t \in {"null", "undefined"}

\* lines 412-427 on the sliced array: the questions, the uuidv4() values
\* used, and whether the mapping threw
MapItems(items, base) ==
    LET bad == {n \in 1..Len(items) : ThrowsOnAccess(items[n])}
    IN  IF bad # {}
        THEN [questions |-> <<>>,
              used |-> CHOOSE n \in bad : \A m \in bad : n <= m,
              threw |-> TRUE]
        ELSE [questions |-> [n \in 1..Len(items) |-> MapItem(items[n], IdOfItem(base, n))],
              used |-> Len(items),
              threw |-> FALSE]

\* lines 410-429 on the outcome of parseJSONResponse
MapParsed(data, base) ==
    IF data.kind = "exception"
    THEN [questions |-> <<>>, used |-> 0, threw |-> TRUE]
    ELSE IF data.kind = "null" \/ Len(data.val.v) = 0
    THEN [questions |-> <<>>, used |-> 0, threw |-> FALSE]
    ELSE MapItems(FirstTwenty(data.val.v), base)

\* lines 409-429 on a non-empty completion
MapCompletion(c, base) == MapParsed(parseJSONResponse(c), base)

\* chatCompletion rejects, or returns something that is no object: the catch
\* block at lines 430-433
GenLLMError ==
    /\ route = "generate"
    /\ apiPc = "await"
    /\ \E r \in GenReplies :
         /\ r.kind \in {"throw", "undefined"}
         /\ llmReply' = r
    /\ usedFallback' = TRUE
    /\ apiPc' = OnLLMError(llmCalls)
    /\ UNCHANGED <<route, req, llmCalls, promptDocs, bodyDocs, questions, tokensUsed,
                   aiResponse, response>>
    /\ UNCHANGED <<parserVars, uuidNext, fbCalls, repoVars, tabVars, usageVars, webVars>>

\* chatCompletion returns: lines 406-429
GenLLMReply ==
    /\ route = "generate"
    /\ apiPc = "await"
    /\ \E r \in GenReplies :
         /\ r.kind = "ok"
         /\ llmReply' = r
         /\ tokensUsed' = r.tokens
         /\ IF r.content = <<>>
            THEN UNCHANGED <<questions, usedFallback, uuidNext>>
            ELSE \E m \in {MapCompletion(r.content, uuidNext)} :
                     /\ questions' = m.questions
                     /\ usedFallback' = m.threw
                     /\ uuidNext' = uuidNext + m.used
    /\ apiPc' = "after"
    /\ UNCHANGED <<route, req, llmCalls, promptDocs, bodyDocs, aiResponse, response>>
    /\ UNCHANGED <<parserVars, fbCalls, repoVars, tabVars, usageVars, webVars>>

\* the fallback list is never substituted
UseFallback_Never(qs) == FALSE

\* line 436: if (questions.length === 0)
UseFallback(qs) == Len(qs) = 0

\* lines 435-445: fall back if nothing was generated, and answer
GenFinish ==
    /\ route = "generate"
    /\ apiPc = "after"
    /\ LET fb == UseFallback(questions)
           qs == IF fb THEN generateFallbackQuestions(req.witnessName.v, req.documents.v, uuidNext)
                 ELSE questions
           uf == fb \/ usedFallback
       IN  /\ questions' = qs
           /\ usedFallback' = uf
           /\ uuidNext' = IF fb THEN uuidNext + FallbackCount ELSE uuidNext
           /\ response' = [NoResponse EXCEPT !.status = 200, !.questions = qs,
                                             !.tokensUsed = tokensUsed, !.usedFallback = uf]
    /\ apiPc' = "done"
    /\ UNCHANGED <<route, req, llmCalls, llmReply, promptDocs, bodyDocs, tokensUsed, aiResponse>>
    /\ UNCHANGED <<parserVars, fbCalls, repoVars, tabVars, usageVars, webVars>>

(***************************************************************************)
(* POST /api/testimony/practice                                            *)
(***************************************************************************)
\* request bodies of the practice route; the prompt text built from
\* witnessName, caseName, questionDetails and documents is not modelled
PracticeRequests ==
    {[kind |-> "badjson"]} \cup
    {[kind |-> "json", question |-> q, witnessResponse |-> w] :
        q \in NameFields, w \in NameFields}

\* completions the LLM may return to the practice route
PracticeContents ==
    { <<>>,
      <<"x">>,
      <<"{", "}">>,
      <<"{", "x", "}">>,
      <<"[", "1", "]">>,
      <<"n", "u", "l", "l">>,
      <<"1">>,
      <<"{", "\"", "f", "o", "l", "l", "o", "w", "U", "p", "\"", ":", "\"", "F", "\"", ",", "\"", "f", "e", "e", "d", "b", "a", "c", "k", "\"", ":", "\"", "B", "\"", "}">>,
      <<"x", " ">> \o <<"{", "\"", "f", "o", "l", "l", "o", "w", "U", "p", "\"", ":", "\"", "F", "\"", "}">> \o <<" ", "y">> }

PracticeReplies ==
    {[kind |-> "throw", content |-> <<>>, tokens |-> 0],
     [kind |-> "undefined", content |-> <<>>, tokens |-> 0]} \cup
    {[kind |-> "ok", content |-> c, tokens |-> t] : c \in PracticeContents, t \in UsageTokens}

Member(k, v) == [k |-> k, v |-> v]

\* lines 74-79
DefaultAiResponse ==
    [t |-> "obj",
     v |-> << Member(K_followUp, Str(Lit("Can you elaborate on that answer?"))),
              Member(K_feedback, Str(Lit("Your response was received. Consider being more specific in your answers."))),
              Member(K_weaknessIdentified, Str(<<>>)),
              Member(K_suggestedImprovement, Str(<<>>)) >>]

\* lines 109-114: the completion itself becomes the feedback
ContentAsFeedback(c) ==
    [t |-> "obj",
     v |-> << Member(K_followUp, Str(Lit("Can you elaborate on that answer?"))),
              Member(K_feedback, Str(c)),
              Member(K_weaknessIdentified, Str(<<>>)),
              Member(K_suggestedImprovement, Str(<<>>)) >>]

\* content.match(/\{[\s\S]*\}/): from the first { to the last }
BraceMatch(c) ==
    LET first == IndexOf(c, "{")
        last  == LastIndexOf(c, "}")
    IN  IF first # 0 /\ last > first
        THEN [has |-> TRUE, text |-> Slice(c, first, last)]
        ELSE [has |-> FALSE, text |-> <<>>]

\* lines 99-115 on a non-empty completion
PracticeParse(c) ==
    LET m == BraceMatch(c)
        p == IF m.has THEN JSONparse(m.text) ELSE JSONparse(c)
    IN  IF p.ok THEN p.val ELSE ContentAsFeedback(c)

\* lines 40-45
PracticeRejection(r) ==
    IF Falsy(r.question) \/ Falsy(r.witnessResponse)
    THEN "question and witnessResponse are required"
    ELSE ""

\* lines 29-80
PracticeReceive ==
    /\ route = "practice"
    /\ apiPc = "start"
    /\ IF req.kind = "badjson"
       THEN /\ response' = ErrorResponse(500, "Failed to process practice response")
            /\ apiPc' = "done"
            /\ UNCHANGED aiResponse
       ELSE IF PracticeRejection(req) # ""
       THEN /\ response' = ErrorResponse(400, PracticeRejection(req))
            /\ apiPc' = "done"
            /\ UNCHANGED aiResponse
       ELSE /\ aiResponse' = DefaultAiResponse
            /\ apiPc' = "call"
            /\ UNCHANGED response
    /\ UNCHANGED <<route, req, llmCalls, llmReply, promptDocs, bodyDocs, questions,
                   usedFallback, tokensUsed>>
    /\ UNCHANGED <<parserVars, uuidNext, fbCalls, repoVars, tabVars, usageVars, webVars>>

\* lines 83-93: await chatCompletion(...)
PracticeCallLLM ==
    /\ route = "practice"
    /\ apiPc = "call"
    /\ llmCalls' = llmCalls + 1
    /\ apiPc' = "await"
    /\ UNCHANGED <<route, req, llmReply, promptDocs, bodyDocs, questions, usedFallback,
                   tokensUsed, aiResponse, response>>
    /\ UNCHANGED <<parserVars, uuidNext, fbCalls, repoVars, tabVars, usageVars, webVars>>

\* lines 117-120: the default response stays
PracticeLLMError ==
    /\ route = "practice"
    /\ apiPc = "await"
    /\ \E r \in PracticeReplies :
         /\ r.kind \in {"throw", "undefined"}
         /\ llmReply' = r
    /\ apiPc' = OnLLMError(llmCalls)
    /\ UNCHANGED <<route, req, llmCalls, promptDocs, bodyDocs, questions, usedFallback,
                   tokensUsed, aiResponse, response>>
    /\ UNCHANGED <<parserVars, uuidNext, fbCalls, repoVars, tabVars, usageVars, webVars>>

\* lines 95-116
PracticeLLMReply ==
    /\ route = "practice"
    /\ apiPc = "await"
    /\ \E r \in PracticeReplies :
         /\ r.kind = "ok"
         /\ llmReply' = r
         /\ tokensUsed' = r.tokens
         /\ aiResponse' = IF r.content = <<>> THEN aiResponse ELSE PracticeParse(r.content)
    /\ apiPc' = "after"
    /\ UNCHANGED <<route, req, llmCalls, promptDocs, bodyDocs, questions, usedFallback, response>>
    /\ UNCHANGED <<parserVars, uuidNext, fbCalls, repoVars, tabVars, usageVars, webVars>>

\* lines 122-125
PracticeFinish ==
    /\ route = "practice"
    /\ apiPc = "after"
    /\ response' = [NoResponse EXCEPT !.status = 200, !.aiResponse = aiResponse,
                                      !.tokensUsed = tokensUsed]
    /\ apiPc' = "done"
    /\ UNCHANGED <<route, req, llmCalls, llmReply, promptDocs, bodyDocs, questions,
                   usedFallback, tokensUsed, aiResponse>>
    /\ UNCHANGED <<parserVars, uuidNext, fbCalls, repoVars, tabVars, usageVars, webVars>>

(***************************************************************************)
(* One request to one of the two routes                                    *)
(***************************************************************************)
ApiInit ==
    /\ \/ route = "generate" /\ req \in GenRequests
       \/ route = "practice" /\ req \in PracticeRequests
    /\ apiPc = "start"
    /\ llmCalls = 0
    /\ llmReply = NoReply
    /\ promptDocs = <<>>
    /\ bodyDocs = <<>>
    /\ questions = <<>>
    /\ usedFallback = FALSE
    /\ tokensUsed = 0
    /\ aiResponse = Undefined
    /\ response = NoResponse
    /\ uuidNext = 0
    /\ fbCalls = <<>>
    /\ WebIdle
    /\ ParserIdle
    /\ RepoIdle

ApiNext ==
    \/ GenReceive
    \/ GenCallLLM
    \/ GenLLMError
    \/ GenLLMReply
    \/ GenFinish
    \/ PracticeReceive
    \/ PracticeCallLLM
    \/ PracticeLLMError
    \/ PracticeLLMReply
    \/ PracticeFinish

SpecApi == ApiInit /\ [][ApiNext]_vars

(***************************************************************************)
(* generateFallbackQuestions called on drawn inputs                        *)
(***************************************************************************)
FallbackWitnessNames == {<<>>, <<"J", "a", "n", "e">>, <<"B", "o", "b">>}

FallbackDocLists == {<<>>, <<DocA>>, <<DocB>>, <<DocA, DocB>>, <<DocB, DocA>>, <<DocUnnamed>>}

CallFallback ==
    /\ Len(fbCalls) < MaxFallbackCalls
    /\ \E w \in FallbackWitnessNames, d \in FallbackDocLists :
         fbCalls' = Append(fbCalls, [witnessName |-> w, documents |-> d,
                                     list |-> generateFallbackQuestions(w, d, uuidNext)])
    /\ uuidNext' = uuidNext + FallbackCount
    /\ UNCHANGED <<parserVars, apiVars, repoVars, tabVars, usageVars, webVars>>

FallbackInit ==
    /\ fbCalls = <<>>
    /\ uuidNext = 0
    /\ ParserIdle
    /\ ApiIdle
    /\ WebIdle
    /\ RepoIdle

FallbackNext == CallFallback

SpecFallback == FallbackInit /\ [][FallbackNext]_vars

(***************************************************************************)
(* Claims about the fallback generator and the two routes                  *)
(***************************************************************************)
SameExceptId(a, b) == [a EXCEPT !.id = 0] = [b EXCEPT !.id = 0]

SchemaValid(q) ==
    /\ q.category \in {C_timeline, C_credibility, C_inconsistency, C_foundation,
                       C_impeachment, C_general}
    /\ q.difficulty \in {D_easy, D_medium, D_hard}

ValidInput ==
    /\ route = "generate"
    /\ req.kind = "json"
    /\ req.witnessName.has /\ req.witnessName.v # <<>>
    /\ req.caseName.has /\ req.caseName.v # <<>>
    /\ req.documents.has /\ Len(req.documents.v) > 0

LLMFailed == llmReply.kind \in {"throw", "undefined"}

EmptyCompletion == llmReply.kind = "ok" /\ llmReply.content = <<>>

\* the response parser gives null, or an array with no items
ZeroUsable ==
    /\ llmReply.kind = "ok"
    /\ llmReply.content # <<>>
    /\ \/ parseJSONResponse(llmReply.content).kind = "null"
       \/ /\ parseJSONResponse(llmReply.content).kind = "array"
          /\ Len(parseJSONResponse(llmReply.content).val.v) = 0

IsFallbackList(qs) ==
    /\ Len(qs) = 20
    /\ \E base \in 0..uuidNext :
         qs = generateFallbackQuestions(req.witnessName.v, req.documents.v, base)

\* C5: on valid input, when the LLM call throws, returns an empty completion,
\* or its content parses to no items, the answer is a 200 whose questions are
\* the 20-item fallback list with usedFallback = true, with tokensUsed = 0
\* when the call itself failed; no valid request ends in an error response.
C5_FallbackOnFailure ==
    (ValidInput /\ apiPc = "done")
    => /\ response.status = 200
       /\ (LLMFailed \/ EmptyCompletion \/ ZeroUsable)
          => /\ IsFallbackList(response.questions)
             /\ response.usedFallback
       /\ LLMFailed => response.tokensUsed = 0

\* a valid request whose LLM call threw has been answered
C5_Witness ==
    /\ ValidInput
    /\ apiPc = "done"
    /\ llmReply.kind = "throw"
    /\ response.status = 200
    /\ response.usedFallback

\* C6: every successful response of the generate-questions route holds
\* exactly 20 questions, whatever number of items the LLM returned.
C6_ExactlyTwenty ==
    (route = "generate" /\ apiPc = "done" /\ response.status = 200)
    => Len(response.questions) = 20

\* a request lacking witnessName, caseName, or documents
MissingInput ==
    /\ route = "generate"
    /\ req.kind = "json"
    /\ \/ ~req.witnessName.has
       \/ ~req.caseName.has
       \/ ~req.documents.has
       \/ Len(req.documents.v) = 0

\* C7: a generate-questions request with missing witnessName, missing
\* caseName, or missing or empty documents never reaches the LLM call and is
\* answered 400 with a message.
C7_RejectedBeforeLLM ==
    MissingInput
    => /\ llmCalls = 0
       /\ apiPc \in {"start", "done"}
       /\ apiPc = "done" => (response.status = 400 /\ response.error # "")

\* a request with names but an empty document list has been answered
C7_Witness ==
    /\ MissingInput
    /\ req.witnessName.has /\ req.witnessName.v # <<>>
    /\ req.caseName.has /\ req.caseName.v # <<>>
    /\ req.documents.has
    /\ apiPc = "done"
    /\ response.status = 400

\* C8: each generate-questions and each practice request calls the LLM at
\* most once; a failed call is followed at once by the fallback path, and the
\* answer then carries the fallback list or the default examiner response.
C8_NoRetry ==
    /\ llmCalls <= 1
    /\ LLMFailed
       => /\ apiPc \in {"after", "done"}
          /\ llmCalls = 1
          /\ apiPc = "done"
             => /\ response.status = 200
                /\ route = "generate"
                   => (response.usedFallback /\ IsFallbackList(response.questions))
                /\ route = "practice" => response.aiResponse = DefaultAiResponse

\* a practice request whose LLM call threw has been answered
C8_Witness ==
    /\ route = "practice"
    /\ apiPc = "done"
    /\ llmReply.kind = "throw"
    /\ llmCalls = 1
    /\ response.status = 200

(***************************************************************************)
(* The session repositories: session-storage.ts and deposition-storage.ts  *)
(* The two modules share loadSessions, saveSessions and cleanupOldSessions  *)
(* line for line; tool tells which of them runs.                            *)
(***************************************************************************)
\* 24 * 60 * 60 * 1000 ms; the model counts time in hours
SESSION_TTL_MS == 24

\* hours the clock advances in one step
TickHours == 9

\* steps the clock makes in one run
MaxTicks == 3

\* repository calls in one run
MaxOps == 2

\* largest room localStorage may have for the value
MaxQuota == 8

\* longest nested list (documents, practice history, sections, ...) the calls build
MaxNested == 2

isBrowser == browser

\* an id no session has
UnknownId == -1

\* a property holding the value undefined
UndefinedValue == "undefined"

\* a stored value that is JSON null where a session should be
NullValue == [null |-> TRUE]

IsNull(v) == "null" \in DOMAIN v

\* ---- Map<string, Session>: entries [k, v] in insertion order -------------
MapHas(m, k) == \E n \in 1..Len(m) : m[n].k = k

MapGet(m, k) == m[CHOOSE n \in 1..Len(m) : m[n].k = k].v

MapKeys(m) == {m[n].k : n \in 1..Len(m)}

\* some value of the Map is null
HasNull(m) == \E n \in 1..Len(m) : IsNull(m[n].v)

\* a Map whose set() forgets new keys
MapSet_NoInsert(m, k, v) ==
    IF MapHas(m, k)
    THEN [n \in 1..Len(m) |-> IF m[n].k = k THEN [k |-> k, v |-> v] ELSE m[n]]
    ELSE m

\* sessions.set(k, v): an existing key keeps its place
MapSet(m, k, v) ==
    IF MapHas(m, k)
    THEN [n \in 1..Len(m) |-> IF m[n].k = k THEN [k |-> k, v |-> v] ELSE m[n]]
    ELSE Append(m, [k |-> k, v |-> v])

\* a Map whose delete() removes nothing
MapDelete_Keep(m, k) == m

\* sessions.delete(k)
MapDelete(m, k) == SelectSeq(m, LAMBDA e : e.k # k)

\* a spread in which the earlier value wins
Spread_FirstWins(a, b) ==
    [f \in (DOMAIN a) \cup (DOMAIN b) |-> IF f \in DOMAIN a THEN a[f] ELSE b[f]]

\* { ...a, ...b }
Spread(a, b) ==
    [f \in (DOMAIN a) \cup (DOMAIN b) |-> IF f \in DOMAIN b THEN b[f] ELSE a[f]]

\* ---- JSON.stringify and JSON.parse of the collection ----------------------
\* the optional properties a session may hold as undefined
OptionalFields == {"caseNumber", "analysis"}

\* JSON.stringify leaves out the properties whose value is undefined
DropUndefined(sess) ==
    [f \in {g \in DOMAIN sess : ~(g \in OptionalFields /\ sess[g] = UndefinedValue)} |-> sess[f]]

\* JSON.stringify(Object.fromEntries(sessions.entries())), as localStorage holds it
Stringify(m) ==
    [kind |-> "sessions",
     entries |-> [n \in 1..Len(m) |-> [k |-> m[n].k, v |-> DropUndefined(m[n].v)]]]

RECURSIVE SumLen(_)
SumLen(lists) == IF Len(lists) = 0 THEN 0 ELSE Len(Head(lists)) + SumLen(Tail(lists))

\* size of a session in the stored text: one unit for the session and one
\* for every nested record
SessionSize(sess) ==
    IF IsNull(sess) THEN 1
    ELSE
    1 + Len(sess.documents) + Len(sess.questions)
      + (IF "practiceHistory" \in DOMAIN sess THEN Len(sess.practiceHistory) ELSE 0)
      + (IF "gaps" \in DOMAIN sess THEN Len(sess.gaps) + Len(sess.contradictions) ELSE 0)
      + (IF "outline" \in DOMAIN sess /\ sess.outline.has
         THEN 1 + Len(sess.outline.v.sections)
                + SumLen([n \in 1..Len(sess.outline.v.sections) |->
                             sess.outline.v.sections[n].questions])
         ELSE 0)

RECURSIVE StoredSize(_)
StoredSize(m) == IF Len(m) = 0 THEN 0 ELSE SessionSize(Head(m).v) + StoredSize(Tail(m))

\* localStorage.setItem throws QuotaExceededError when the value does not fit
QuotaExceeded(m) == StoredSize(m) > quota

\* what localStorage holds under STORAGE_KEY when it is not the JSON of an
\* object: text JSON.parse rejects, the JSON null, a JSON number
Unreadable == {"invalid", "null", "number"}

\* lines 15-28 (23-36): the stored collection, or an empty Map. !stored
\* (line 20) covers the missing key; the catch (line 24) covers the
\* SyntaxError of JSON.parse and the TypeError of Object.entries(null);
\* Object.entries of a number is empty. The values of a stored object are
\* taken as they are, sessions or not.
loadSessions ==
    IF ~isBrowser THEN <<>>
    ELSE IF store.kind = "absent" THEN <<>>
    ELSE IF store.kind \in Unreadable THEN <<>>
    ELSE store.entries

\* a cleanup that never expires a session
cleanupOldSessions_KeepAll(m, aggressive) == m

\* lines 52-62 (58-68)
cleanupOldSessions(m, aggressive) ==
    SelectSeq(m, LAMBDA e :
        ~(now - e.v.createdAt > (IF aggressive THEN SESSION_TTL_MS \div 2 ELSE SESSION_TTL_MS)))

\* session.createdAt (line 57) raises a TypeError when a value of the Map is
\* null
CleanupThrows(m) == HasNull(m)

\* the retry of saveSessions, lines 41-47 (47-53), on the cleaned Map
RetryWrite(cleaned) ==
    IF QuotaExceeded(cleaned)
    THEN [store |-> store, wrote |-> "failed", sessions |-> cleaned]
    ELSE [store |-> Stringify(cleaned), wrote |-> "retry", sessions |-> cleaned]

\* a save that gives up at the first quota error
saveSessions_NoRetry(m) ==
    IF ~isBrowser THEN [store |-> store, wrote |-> "skipped", sessions |-> m]
    ELSE IF ~QuotaExceeded(m) THEN [store |-> Stringify(m), wrote |-> "first", sessions |-> m]
    ELSE [store |-> store, wrote |-> "failed", sessions |-> m]

\* lines 30-50 (38-56): what the store holds afterwards, how the write went
\* (skipped, first, retry, failed) and what is left in the Map
saveSessions(m) ==
    IF ~isBrowser THEN [store |-> store, wrote |-> "skipped", sessions |-> m]
    ELSE IF ~QuotaExceeded(m) THEN [store |-> Stringify(m), wrote |-> "first", sessions |-> m]
    ELSE IF CleanupThrows(m) THEN [store |-> store, wrote |-> "threw", sessions |-> m]
    ELSE RetryWrite(cleanupOldSessions(m, TRUE))

\* ---- return values ---------------------------------------------------------
ReturnSession(sess) == [kind |-> "session", v |-> sess]

ReturnUndefined == [kind |-> "undefined"]

ReturnBoolean(b) == [kind |-> "boolean", v |-> b]

ReturnList(l) == [kind |-> "list", v |-> l]

ReturnVoid == [kind |-> "void"]

\* sessions.get(id) gave the null that is stored
ReturnStoredNull == [kind |-> "null"]

\* the call ended in an uncaught TypeError
ReturnThrows == [kind |-> "throws"]

\* one repository call ends: the store it leaves, the write's outcome, the
\* value returned and the uuidv4() values it used; updates is the partial
\* record an update call was given
CallWith(op, id, updates, newStore, wrote, ret, uuids) ==
    /\ opsDone < MaxOps
    /\ store' = newStore
    /\ lastOp' = [op |-> op, id |-> id, updates |-> updates, at |-> now, wrote |-> wrote,
                  ret |-> ret, before |-> store,
                  prev |-> IF lastOp.op \in {"create", "update", "delete"}
                           THEN [lastOp EXCEPT !.prev = <<>>]
                           ELSE NoOp]
    /\ opsDone' = opsDone + 1
    /\ uuidNext' = uuidNext + uuids
    /\ UNCHANGED <<tool, browser, now, quota>>
    /\ UNCHANGED <<parserVars, apiVars, fbCalls, tabVars, usageVars, webVars>>

Call(op, id, newStore, wrote, ret, uuids) ==
    CallWith(op, id, NoUpdates, newStore, wrote, ret, uuids)

\* the call saved and returns, unless the cleanup inside saveSessions threw
Saved(op, id, res, ret, uuids) ==
    Call(op, id, res.store, res.wrote, IF res.wrote = "threw" THEN ReturnThrows ELSE ret, uuids)

\* a mutator that saves the session it changed and no other
MutateFound_Alone(op, id, sessions, ch, uuids) ==
    IF ~ch.ok
    THEN Call(op, id, store, "none", ReturnUndefined, 0)
    ELSE Saved(op, id, saveSessions(<<[k |-> id, v |-> ch.v]>>), ReturnSession(ch.v), uuids)

\* the mutator found its target: ch.ok tells whether it goes on to save
MutateFound(op, id, sessions, ch, uuids) ==
    IF ~ch.ok
    THEN Call(op, id, store, "none", ReturnUndefined, 0)
    ELSE Saved(op, id, saveSessions(MapSet(sessions, id, ch.v)), ReturnSession(ch.v), uuids)

\* !session: no value under the id, or a null one
Missing(sessions, id) == ~MapHas(sessions, id) \/ IsNull(MapGet(sessions, id))

\* the shape all nested mutators share: load, get the session (undefined if
\* missing), change it, set it, save, return it
Mutate(op, id, change(_), uuids) ==
    IF Missing(loadSessions, id)
    THEN Call(op, id, store, "none", ReturnUndefined, 0)
    ELSE MutateFound(op, id, loadSessions, change(MapGet(loadSessions, id)), uuids)

Changed(sess) == [ok |-> TRUE, v |-> sess]

NotChanged == [ok |-> FALSE, v |-> <<>>]

\* the ids a caller passes: those of the stored sessions, the id of the
\* call before (a session just created or deleted), and one of none
SessionIdInputs == MapKeys(loadSessions) \cup {lastOp.id} \cup {UnknownId}

\* the caps on the nested lists the calls build
Room(id, field) ==
    ~Missing(loadSessions, id) => Len(MapGet(loadSessions, id)[field]) < MaxNested

(***************************************************************************)
(* session-storage.ts: the testimony repository                            *)
(***************************************************************************)
DocumentInputs == {[id |-> "d1", name |-> "A.pdf", status |-> "ready"]}

DocumentIdInputs == {"d1", "d9"}

DocumentUpdates == {[name |-> "B.pdf"]}

QuestionLists == {<<>>, <<[id |-> "q1", question |-> "Q"]>>}

ExchangeInputs ==
    {[id |-> "e1", questionId |-> "q1", duration |-> 30],
     [id |-> "e2", questionId |-> "q1", duration |-> 45]}

TestimonyUpdates == {[status |-> "completed"], [status |-> "setup"], [caseName |-> "Renamed"]}

\* lines 68-78
NewSession(id, witnessName, caseName) ==
    [id |-> id, witnessName |-> witnessName, caseName |-> caseName, createdAt |-> now,
     documents |-> <<>>, questions |-> <<>>, status |-> "setup",
     practiceHistory |-> <<>>, totalDuration |-> 0]

\* lines 64-83 and 70-95: load, cleanup, add the new session, save
Create(op, sess) ==
    IF CleanupThrows(loadSessions)
    THEN Call(op, UnknownId, store, "none", ReturnThrows, 0)
    ELSE Saved(op, sess.id,
               saveSessions(MapSet(cleanupOldSessions(loadSessions, FALSE), sess.id, sess)),
               ReturnSession(sess), 1)

createSession ==
    /\ tool = "testimony"
    /\ Create("create", NewSession(Uuid(uuidNext), "Jane Doe", "Smith v. Jones"))

\* lines 85-88 and 97-100
GetById(op) ==
    \E id \in SessionIdInputs :
        Call(op, id, store, "none",
             IF ~MapHas(loadSessions, id) THEN ReturnUndefined
             ELSE IF IsNull(MapGet(loadSessions, id)) THEN ReturnStoredNull
             ELSE ReturnSession(MapGet(loadSessions, id)), 0)

getSession ==
    /\ tool = "testimony"
    /\ GetById("get")

\* a list that leaves the values in the order of the Map
SortOrder_Insertion(m) == [i \in 1..Len(m) |-> i]

\* the order sort((a, b) => b.createdAt - a.createdAt) puts the values in:
\* newest first, and (the sort is stable) sessions created at the same time
\* in the order they have in the Map
SortOrder(m) ==
    CHOOSE perm \in [1..Len(m) -> 1..Len(m)] :
        /\ \A i, j \in 1..Len(m) : i # j => perm[i] # perm[j]
        /\ \A i, j \in 1..Len(m) :
             i < j => \/ m[perm[i]].v.createdAt > m[perm[j]].v.createdAt
                      \/ /\ m[perm[i]].v.createdAt = m[perm[j]].v.createdAt
                         /\ perm[i] < perm[j]

\* Array.from(sessions.values()).sort(...)
SortedValues(m) == [i \in 1..Len(m) |-> m[SortOrder(m)[i]].v]

\* lines 90-95 and 102-107
\* the comparator reads b.createdAt and a.createdAt: a TypeError on a null
\* value, once there are two values to compare
SortThrows(m) == Len(m) >= 2 /\ HasNull(m)

GetAll(op) ==
    Call(op, UnknownId, store, "none",
         IF SortThrows(loadSessions) THEN ReturnThrows
         ELSE ReturnList(SortedValues(loadSessions)), 0)

getAllSessions ==
    /\ tool = "testimony"
    /\ GetAll("getAll")

\* lines 102-105 and 117-120: the session was found
Updated(op, id, u, updated, res) ==
    CallWith(op, id, u, res.store, res.wrote,
             IF res.wrote = "threw" THEN ReturnThrows ELSE ReturnSession(updated), 0)

\* lines 97-106 and 109-121
UpdateById(op, id, u) ==
    IF Missing(loadSessions, id)
    THEN CallWith(op, id, u, store, "none", ReturnUndefined, 0)
    ELSE Updated(op, id, u, Spread(MapGet(loadSessions, id), u),
                 saveSessions(MapSet(loadSessions, id, Spread(MapGet(loadSessions, id), u))))

Update(op, updates) ==
    \E id \in SessionIdInputs, u \in updates : UpdateById(op, id, u)

updateSession ==
    /\ tool = "testimony"
    /\ Update("update", TestimonyUpdates)

\* lines 108-117 and 123-135
AddDocument(op) ==
    \E id \in SessionIdInputs, d \in DocumentInputs :
        /\ Room(id, "documents")
        /\ Mutate(op, id, LAMBDA sess : Changed([sess EXCEPT !.documents = Append(@, d)]), 0)

addDocument ==
    /\ tool = "testimony"
    /\ AddDocument("addDocument")

\* documents.findIndex(d => d.id === documentId); 0 stands for -1
FindIndex(seq, id) ==
    IF \E n \in 1..Len(seq) : seq[n].id = id
    THEN CHOOSE n \in 1..Len(seq) : seq[n].id = id /\ \A k \in 1..(n - 1) : seq[k].id # id
    ELSE 0

\* lines 124-127 and 146-149
WithDocumentUpdated(sess, documentId, u) ==
    IF FindIndex(sess.documents, documentId) = 0 THEN NotChanged
    ELSE Changed([sess EXCEPT !.documents[FindIndex(sess.documents, documentId)] =
                                  Spread(@, u)])

\* lines 119-131 and 137-153
UpdateDocument(op) ==
    \E id \in SessionIdInputs, d \in DocumentIdInputs, u \in DocumentUpdates :
        Mutate(op, id, LAMBDA sess : WithDocumentUpdated(sess, d, u), 0)

updateDocument ==
    /\ tool = "testimony"
    /\ UpdateDocument("updateDocument")

\* lines 133-142 and 155-167
RemoveDocument(op) ==
    \E id \in SessionIdInputs, d \in DocumentIdInputs :
        Mutate(op, id,
               LAMBDA sess : Changed([sess EXCEPT !.documents =
                                         SelectSeq(@, LAMBDA x : x.id # d)]), 0)

removeDocument ==
    /\ tool = "testimony"
    /\ RemoveDocument("removeDocument")

\* lines 144-154 and 169-182
SetQuestions(op) ==
    \E id \in SessionIdInputs, qs \in QuestionLists :
        Mutate(op, id,
               LAMBDA sess : Changed([sess EXCEPT !.questions = qs, !.status = "ready"]), 0)

setQuestions ==
    /\ tool = "testimony"
    /\ SetQuestions("setQuestions")

\* the exchange put in front of the history
WithExchange_Prepend(sess, x) ==
    [sess EXCEPT !.practiceHistory = <<x>> \o @, !.totalDuration = @ + x.duration]

\* lines 161-162
WithExchange(sess, x) ==
    [sess EXCEPT !.practiceHistory = Append(@, x), !.totalDuration = @ + x.duration]

\* lines 156-166
addPracticeExchange ==
    /\ tool = "testimony"
    /\ \E id \in SessionIdInputs, x \in ExchangeInputs :
         /\ Room(id, "practiceHistory")
         /\ Mutate("addPracticeExchange", id,
                   LAMBDA sess : Changed(WithExchange(sess, x)), 0)

\* lines 168-175 and 325-332
DeleteFrom(op, id, sessions) ==
    IF MapHas(sessions, id)
    THEN Saved(op, id, saveSessions(MapDelete(sessions, id)), ReturnBoolean(TRUE), 0)
    ELSE Call(op, id, store, "none", ReturnBoolean(FALSE), 0)

Delete(op) == \E id \in SessionIdInputs : DeleteFrom(op, id, loadSessions)

deleteSession ==
    /\ tool = "testimony"
    /\ Delete("delete")

\* lines 177-180 and 334-337: localStorage.removeItem(STORAGE_KEY)
ClearAll(op) ==
    Call(op, UnknownId, IF isBrowser THEN Absent ELSE store, "none", ReturnVoid, 0)

clearAllSessions ==
    /\ tool = "testimony"
    /\ ClearAll("clearAll")

\* time passes
Tick ==
    /\ now + TickHours <= MaxTicks * TickHours
    /\ now' = now + TickHours
    /\ UNCHANGED <<tool, browser, store, quota, opsDone, lastOp, uuidNext>>
    /\ UNCHANGED <<parserVars, apiVars, fbCalls, tabVars, usageVars, webVars>>

(***************************************************************************)
(* deposition-storage.ts: the deposition repository                        *)
(***************************************************************************)
CaseNumberInputs == {"2024-CV-1", UndefinedValue}

DepositionUpdates == {[status |-> "completed"], [status |-> "setup"], [caseName |-> "Renamed"]}

AnalysisInputs ==
    {[gaps |-> <<[id |-> "g1"]>>, contradictions |-> <<>>, analysis |-> "themes"],
     [gaps |-> <<>>, contradictions |-> <<>>, analysis |-> UndefinedValue]}

SectionInputs == {[title |-> "Background", order |-> 0, questions |-> <<>>]}

SectionUpdates == {[title |-> "Timeline"]}

SectionQuestionInputs == {[id |-> "q1", question |-> "Q"]}

QuestionIdInputs == {"q1", "q9"}

\* lines 78-90
NewDepositionSession(id, deponentName, caseName, caseNumber) ==
    [id |-> id, deponentName |-> deponentName, caseName |-> caseName,
     caseNumber |-> caseNumber, createdAt |-> now,
     documents |-> <<>>, gaps |-> <<>>, contradictions |-> <<>>, questions |-> <<>>,
     outline |-> None, status |-> "setup"]

createDepositionSession ==
    /\ tool = "deposition"
    /\ \E cn \in CaseNumberInputs :
         Create("create", NewDepositionSession(Uuid(uuidNext), "John Roe", "Smith v. Jones", cn))

getDepositionSession ==
    /\ tool = "deposition"
    /\ GetById("get")

getAllDepositionSessions ==
    /\ tool = "deposition"
    /\ GetAll("getAll")

updateDepositionSession ==
    /\ tool = "deposition"
    /\ Update("update", DepositionUpdates)

addDepositionDocument ==
    /\ tool = "deposition"
    /\ AddDocument("addDocument")

updateDepositionDocument ==
    /\ tool = "deposition"
    /\ UpdateDocument("updateDocument")

removeDepositionDocument ==
    /\ tool = "deposition"
    /\ RemoveDocument("removeDocument")

setDepositionQuestions ==
    /\ tool = "deposition"
    /\ SetQuestions("setQuestions")

\* lines 184-200
setAnalysisResults ==
    /\ tool = "deposition"
    /\ \E id \in SessionIdInputs, a \in AnalysisInputs :
         Mutate("setAnalysisResults", id, LAMBDA sess : Changed(Spread(sess, a)), 0)

\* lines 207-213
NewOutline(id, title) ==
    [id |-> id, title |-> title, sections |-> <<>>, createdAt |-> now, updatedAt |-> now]

\* lines 202-219
createOutline ==
    /\ tool = "deposition"
    /\ \E id \in SessionIdInputs :
         Mutate("createOutline", id,
                LAMBDA sess : Changed([sess EXCEPT
                                          !.outline = Some(NewOutline(Uuid(uuidNext), "Outline"))]),
                1)

\* session.outline.sections = sections; session.outline.updatedAt = now
WithSections(sess, sections) ==
    [sess EXCEPT !.outline = Some([sess.outline.v EXCEPT !.sections = sections,
                                                         !.updatedAt = now])]

\* the early return of the outline mutators: !session.outline
OnOutline(sess, sections(_)) ==
    IF ~sess.outline.has THEN NotChanged
    ELSE Changed(WithSections(sess, sections(sess.outline.v.sections)))

\* the section mutators also return when findIndex gives -1
OnSection(sess, sectionId, section(_)) ==
    IF ~sess.outline.has THEN NotChanged
    ELSE IF FindIndex(sess.outline.v.sections, sectionId) = 0 THEN NotChanged
    ELSE Changed(WithSections(sess,
             [sess.outline.v.sections EXCEPT
                 ![FindIndex(sess.outline.v.sections, sectionId)] = section(@)]))

\* every section id stored, and one of none
SectionIdInputs ==
    UNION {{m.v.outline.v.sections[n].id : n \in 1..Len(m.v.outline.v.sections)} :
             m \in {e \in {loadSessions[n] : n \in 1..Len(loadSessions)} :
                      ~IsNull(e.v) /\ e.v.outline.has}}
    \cup {UnknownId}

SectionRoom(id) ==
    (~Missing(loadSessions, id) /\ MapGet(loadSessions, id).outline.has)
    => Len(MapGet(loadSessions, id).outline.v.sections) < MaxNested

\* lines 221-239
addOutlineSection ==
    /\ tool = "deposition"
    /\ \E id \in SessionIdInputs, sec \in SectionInputs :
         /\ SectionRoom(id)
         /\ Mutate("addOutlineSection", id,
                   LAMBDA sess : OnOutline(sess,
                       LAMBDA secs : Append(secs, Spread(sec, [id |-> Uuid(uuidNext)]))),
                   1)

\* lines 241-261
updateOutlineSection ==
    /\ tool = "deposition"
    /\ \E id \in SessionIdInputs, sid \in SectionIdInputs, u \in SectionUpdates :
         Mutate("updateOutlineSection", id,
                LAMBDA sess : OnSection(sess, sid, LAMBDA sec : Spread(sec, u)), 0)

\* lines 271-277: the loop over sectionIds, i counting from 0
RECURSIVE Reordered(_, _, _)
Reordered(sections, sectionIds, i) ==
    IF i >= Len(sectionIds) THEN <<>>
    ELSE (IF FindIndex(sections, sectionIds[i + 1]) = 0 THEN <<>>
          ELSE <<Spread(sections[FindIndex(sections, sectionIds[i + 1])], [order |-> i])>>)
         \o Reordered(sections, sectionIds, i + 1)

\* the sectionIds a caller passes: none, one id, an id twice, an unknown id
\* before a known one
ReorderInputs ==
    {<<>>} \cup {<<a>> : a \in SectionIdInputs}
           \cup {<<UnknownId, a>> : a \in SectionIdInputs}
           \cup {<<a, a>> : a \in SectionIdInputs \ {UnknownId}}

\* lines 263-284
reorderOutlineSections ==
    /\ tool = "deposition"
    /\ \E id \in SessionIdInputs, ids \in ReorderInputs :
         Mutate("reorderOutlineSections", id,
                LAMBDA sess : OnOutline(sess, LAMBDA secs : Reordered(secs, ids, 0)), 0)

QuestionRoom(sid) ==
    \A n \in 1..Len(loadSessions) :
        (~IsNull(loadSessions[n].v) /\ loadSessions[n].v.outline.has)
        => \A k \in 1..Len(loadSessions[n].v.outline.v.sections) :
              loadSessions[n].v.outline.v.sections[k].id = sid
              => Len(loadSessions[n].v.outline.v.sections[k].questions) < MaxNested

\* lines 286-303
addQuestionToSection ==
    /\ tool = "deposition"
    /\ \E id \in SessionIdInputs, sid \in SectionIdInputs, q \in SectionQuestionInputs :
         /\ QuestionRoom(sid)
         /\ Mutate("addQuestionToSection", id,
                   LAMBDA sess : OnSection(sess, sid,
                       LAMBDA sec : [sec EXCEPT !.questions = Append(@, q)]), 0)

\* lines 305-323
removeQuestionFromSection ==
    /\ tool = "deposition"
    /\ \E id \in SessionIdInputs, sid \in SectionIdInputs, qid \in QuestionIdInputs :
         Mutate("removeQuestionFromSection", id,
                LAMBDA sess : OnSection(sess, sid,
                    LAMBDA sec : [sec EXCEPT !.questions = SelectSeq(@, LAMBDA x : x.id # qid)]),
                0)

deleteDepositionSession ==
    /\ tool = "deposition"
    /\ Delete("delete")

clearAllDepositionSessions ==
    /\ tool = "deposition"
    /\ ClearAll("clearAll")

(***************************************************************************)
(* Runs of a repository                                                    *)
(***************************************************************************)
\* a session as createSession left it at time 0
SeedPlain ==
    [id |-> Uuid(0), witnessName |-> "Jane Doe", caseName |-> "Smith v. Jones", createdAt |-> 0,
     documents |-> <<>>, questions |-> <<>>, status |-> "setup",
     practiceHistory |-> <<>>, totalDuration |-> 0]

\* a session after addDocument, setQuestions and addPracticeExchange
SeedPractised ==
    [SeedPlain EXCEPT !.documents = <<[id |-> "d1", name |-> "A.pdf", status |-> "ready"]>>,
                      !.questions = <<[id |-> "q1", question |-> "Q"]>>,
                      !.status = "ready",
                      !.practiceHistory = <<[id |-> "e1", questionId |-> "q1", duration |-> 30]>>,
                      !.totalDuration = 30]

\* a session as createDepositionSession left it at time 0
SeedDeposition ==
    [id |-> Uuid(0), deponentName |-> "John Roe", caseName |-> "Smith v. Jones",
     caseNumber |-> "2024-CV-1", createdAt |-> 0,
     documents |-> <<>>, gaps |-> <<>>, contradictions |-> <<>>, questions |-> <<>>,
     outline |-> None, status |-> "setup"]

\* a session after createOutline, addOutlineSection and addQuestionToSection
SeedOutlined ==
    [SeedDeposition EXCEPT
        !.outline = Some([id |-> Uuid(1), title |-> "Outline", createdAt |-> 0, updatedAt |-> 0,
                          sections |-> <<[id |-> Uuid(2), title |-> "Background", order |-> 0,
                                          questions |-> <<[id |-> "q1", question |-> "Q"]>>]>>])]

\* uuidv4() values the seeds hold
SeedUuids == 3

SeedStores(t) ==
    {Absent} \cup
    (IF t = "testimony"
     THEN {Stringify(<<[k |-> Uuid(0), v |-> SeedPlain]>>),
           Stringify(<<[k |-> Uuid(0), v |-> SeedPractised]>>)}
     ELSE {Stringify(<<[k |-> Uuid(0), v |-> SeedDeposition]>>),
           Stringify(<<[k |-> Uuid(0), v |-> SeedOutlined]>>)})

Quotas == {1, MaxQuota \div 2, MaxQuota}

RepoInit ==
    /\ tool \in {"testimony", "deposition"}
    /\ browser \in BOOLEAN
    /\ store \in (IF browser THEN SeedStores(tool) ELSE {Absent})
    /\ now = 0
    /\ quota \in Quotas
    /\ opsDone = 0
    /\ lastOp = NoOp
    /\ uuidNext = SeedUuids
    /\ fbCalls = <<>>
    /\ ParserIdle
    /\ ApiIdle
    /\ WebIdle
    /\ TabsIdle
    /\ UsageIdle

RepoNext ==
    \/ Tick
    \/ createSession
    \/ getSession
    \/ getAllSessions
    \/ updateSession
    \/ addDocument
    \/ updateDocument
    \/ removeDocument
    \/ setQuestions
    \/ addPracticeExchange
    \/ deleteSession
    \/ clearAllSessions
    \/ createDepositionSession
    \/ getDepositionSession
    \/ getAllDepositionSessions
    \/ updateDepositionSession
    \/ addDepositionDocument
    \/ updateDepositionDocument
    \/ removeDepositionDocument
    \/ setDepositionQuestions
    \/ setAnalysisResults
    \/ createOutline
    \/ addOutlineSection
    \/ updateOutlineSection
    \/ reorderOutlineSections
    \/ addQuestionToSection
    \/ removeQuestionFromSection
    \/ deleteDepositionSession
    \/ clearAllDepositionSessions

SpecRepo == RepoInit /\ [][RepoNext]_vars

(***************************************************************************)
(* Claims about the repositories                                           *)
(***************************************************************************)
\* the collection before the last call, and after it
Before == lastOp.before.entries

Stored == store.entries

\* hours between a session's creation and the last call
AgeAtCall(e) == lastOp.at - e.v.createdAt

Created == lastOp.ret.v

WriteSucceeded == lastOp.wrote \in {"first", "retry"}

\* the session create returned has a fresh id, empty nested collections and
\* status 'setup'
FreshAndEmpty ==
    /\ ~MapHas(Before, Created.id)
    /\ Created.documents = <<>>
    /\ Created.questions = <<>>
    /\ Created.status = "setup"
    /\ tool = "testimony" => (Created.practiceHistory = <<>> /\ Created.totalDuration = 0)
    /\ tool = "deposition" => /\ Created.gaps = <<>>
                              /\ Created.contradictions = <<>>
                              /\ ~Created.outline.has

\* the persisted collection gained the created session and no other
AddedExactlyThat ==
    /\ MapHas(Stored, Created.id)
    /\ MapGet(Stored, Created.id) = DropUndefined(Created)
    /\ MapKeys(Stored) \ MapKeys(Before) = {Created.id}

\* C9 as stated: create returns a session with a fresh id, empty nested
\* collections and status 'setup', and adds exactly that session to the
\* persisted collection.
C9_CreateAddsSession ==
    lastOp.op = "create" => (FreshAndEmpty /\ AddedExactlyThat)

\* C9, amended: the returned session is always fresh, empty and in 'setup';
\* it is added to the persisted collection when the storage write succeeds,
\* at the first attempt or at the retry after a quota error.
C9_CreateWhenWritten ==
    lastOp.op = "create"
    => /\ FreshAndEmpty
       /\ WriteSucceeded => AddedExactlyThat

\* a deposition session was created next to a stored one and written
C9_Witness ==
    /\ tool = "deposition"
    /\ lastOp.op = "create"
    /\ lastOp.wrote = "first"
    /\ Len(Before) = 1
    /\ Len(Stored) = 2

\* the sessions a call other than create may take out on purpose
Targeted ==
    IF lastOp.op = "delete" THEN {lastOp.id}
    ELSE IF lastOp.op = "clearAll" THEN MapKeys(Before)
    ELSE {}

OtherCall == lastOp.op \notin {"none", "create"}

\* C10 as stated: after a create whose write succeeded no stored session is
\* older than 24 hours and every earlier session at most 24 hours old is
\* still stored; no other call removes a session for its age.
C10_RetentionOnCreate ==
    /\ (lastOp.op = "create" /\ WriteSucceeded)
       => /\ \A n \in 1..Len(Stored) : AgeAtCall(Stored[n]) <= 24
          /\ \A n \in 1..Len(Before) :
               AgeAtCall(Before[n]) <= 24 => MapHas(Stored, Before[n].k)
    /\ OtherCall => (MapKeys(Before) \ Targeted) \subseteq MapKeys(Stored)

\* C10, amended: after a create whose write succeeded no stored session is
\* older than 24 hours; the earlier sessions at most 24 hours old are all
\* still stored when the first write attempt succeeded, and those at most 12
\* hours old when the write succeeded at the quota retry; another call
\* removes sessions for age only at the quota retry, and then only those
\* older than 12 hours.
C10_RetentionFirstWrite ==
    /\ (lastOp.op = "create" /\ WriteSucceeded)
       => /\ \A n \in 1..Len(Stored) : AgeAtCall(Stored[n]) <= 24
          /\ \A n \in 1..Len(Before) :
               AgeAtCall(Before[n]) <= (IF lastOp.wrote = "first" THEN 24 ELSE 12)
               => MapHas(Stored, Before[n].k)
    /\ OtherCall
       => \A n \in 1..Len(Before) :
            (Before[n].k \notin Targeted /\ ~MapHas(Stored, Before[n].k))
            => (lastOp.wrote = "retry" /\ AgeAtCall(Before[n]) > 12)

\* a create at its first write dropped a session older than 24 hours and
\* kept a younger one
C10_Witness ==
    /\ lastOp.op = "create"
    /\ lastOp.wrote = "first"
    /\ \E n \in 1..Len(Before) :
         AgeAtCall(Before[n]) > 24 /\ ~MapHas(Stored, Before[n].k)
    /\ \E n \in 1..Len(Before) :
         AgeAtCall(Before[n]) <= 24 /\ AgeAtCall(Before[n]) > 0 /\ MapHas(Stored, Before[n].k)

\* the call before the last one
Prev == lastOp.prev

\* the last two calls were made on the same session id
SameSession == Prev.op # "none" /\ lastOp.id = Prev.id

\* what get(id) has to give: the stored record as JSON.parse rebuilds it
ReadBack(sess) == ReturnSession(DropUndefined(sess))

\* two update calls in a row found the session; base is the record stored
\* before the first of them
TwoUpdates ==
    /\ lastOp.op = "update"
    /\ Prev.op = "update"
    /\ SameSession
    /\ Prev.ret.kind = "session"
    /\ lastOp.ret.kind = "session"

Base == MapGet(Prev.before.entries, lastOp.id)

\* field by field: p2 wins, then p1, then the stored value
MergedLastWins(rec, base, p1, p2) ==
    /\ DOMAIN rec = (DOMAIN base) \cup (DOMAIN p1) \cup (DOMAIN p2)
    /\ \A f \in DOMAIN rec :
         rec[f] = IF f \in DOMAIN p2 THEN p2[f]
                  ELSE IF f \in DOMAIN p1 THEN p1[f]
                  ELSE base[f]

\* C11 as stated: get(id) right after create returns a record equal to the
\* created one, and after update(id, p1), update(id, p2) the record get(id)
\* returns is the stored one merged with p1 then p2, p2 winning on shared
\* fields and the fields in neither unchanged.
C11_ReadAfterWrite ==
    /\ (lastOp.op = "get" /\ Prev.op = "create" /\ SameSession)
       => lastOp.ret = Prev.ret
    /\ TwoUpdates
       => /\ MapHas(Stored, lastOp.id)
          /\ MergedLastWins(MapGet(Stored, lastOp.id), Base, Prev.updates, lastOp.updates)
    /\ (lastOp.op = "get" /\ MapHas(Before, lastOp.id))
       => lastOp.ret = ReturnSession(MapGet(Before, lastOp.id))

\* C11, amended: get(id) right after a create whose write succeeded returns
\* the created record without the properties created as undefined; after two
\* updates in a row that each wrote at the first attempt the stored record
\* is the earlier one merged with p1 then p2, and each update returns its
\* merge whether written or not; get(id) returns the stored record, and
\* undefined when none is stored.
C11_ReadAfterFirstWrite ==
    /\ (lastOp.op = "get" /\ Prev.op = "create" /\ SameSession
                          /\ Prev.wrote \in {"first", "retry"})
       => lastOp.ret = ReadBack(Prev.ret.v)
    /\ (TwoUpdates /\ Prev.wrote = "first" /\ lastOp.wrote = "first")
       => /\ MapHas(Stored, lastOp.id)
          /\ MergedLastWins(MapGet(Stored, lastOp.id), Base, Prev.updates, lastOp.updates)
          /\ lastOp.ret = ReturnSession(MapGet(Stored, lastOp.id))
    /\ lastOp.op = "get"
       => lastOp.ret = IF isBrowser /\ MapHas(Before, lastOp.id)
                       THEN ReturnSession(MapGet(Before, lastOp.id))
                       ELSE ReturnUndefined

\* two updates of the same field were written one after the other, and the
\* second value is the one stored
C11_Witness ==
    /\ TwoUpdates
    /\ Prev.wrote = "first"
    /\ lastOp.wrote = "first"
    /\ Prev.updates = [status |-> "completed"]
    /\ lastOp.updates = [status |-> "setup"]
    /\ MapGet(Stored, lastOp.id).status = "setup"

\* the list getAll returned
Listed == lastOp.ret.v

\* C12: list returns exactly the sessions of the persisted collection, each
\* once, newest first: of two consecutive results the first was not created
\* earlier than the second.
C12_ListNewestFirst ==
    lastOp.op = "getAll"
    => /\ lastOp.ret.kind = "list"
       /\ Len(Listed) = Len(Before)
       /\ \A n \in 1..Len(Before) :
            Cardinality({i \in 1..Len(Listed) : Listed[i] = Before[n].v}) = 1
       /\ \A i \in 1..(Len(Listed) - 1) : Listed[i].createdAt >= Listed[i + 1].createdAt

\* a list of two sessions came back in the reverse of their stored order
C12_Witness ==
    /\ lastOp.op = "getAll"
    /\ Len(Listed) = 2
    /\ Before[1].v.createdAt < Before[2].v.createdAt
    /\ Listed[1] = Before[2].v
    /\ Listed[2] = Before[1].v

\* documents, questions, exchanges and outline sections nested in a session
NestedCount(sess) == SessionSize(sess) - 1

\* C13: delete(id) returns true exactly when a session with that id was
\* stored; afterwards the store holds no record under that id, and so none
\* of the documents, questions, exchanges and outline state nested in it,
\* while every other session is still stored; get(id) then returns missing.
C13_CascadeDelete ==
    /\ lastOp.op = "delete"
       => /\ lastOp.ret = ReturnBoolean(MapHas(Before, lastOp.id))
          /\ \A i \in 1..Len(Stored) : Stored[i].k # lastOp.id /\ Stored[i].v.id # lastOp.id
          /\ \A n \in 1..Len(Before) :
               Before[n].k # lastOp.id => \E i \in 1..Len(Stored) : Stored[i] = Before[n]
          /\ Len(Stored) = Len(Before) - (IF MapHas(Before, lastOp.id) THEN 1 ELSE 0)
    /\ (lastOp.op = "get" /\ Prev.op = "delete" /\ SameSession)
       => lastOp.ret = ReturnUndefined

\* a session holding documents, questions and exchanges, or an outline with
\* a section and a question, was deleted and a read of its id followed
C13_Witness ==
    /\ lastOp.op = "get"
    /\ Prev.op = "delete"
    /\ SameSession
    /\ Prev.ret = ReturnBoolean(TRUE)
    /\ NestedCount(MapGet(Prev.before.entries, Prev.id)) >= 3
    /\ Stored = <<>>

\* the sections of the outline a section mutator returned
ReturnedSections == lastOp.ret.v.outline.v.sections

\* C14 as stated: after reorderOutlineSections the order fields of the
\* outline's sections are exactly 0, 1, ..., n-1 in sequence, with no gap and
\* no duplicate, whatever sectionIds were passed.
C14_ReorderDense ==
    (lastOp.op = "reorderOutlineSections" /\ lastOp.ret.kind = "session")
    => \A i \in 1..Len(ReturnedSections) : ReturnedSections[i].order = i - 1

\* the place of a status in its lifecycle (part_003 line 33, part_002 line 90)
Lifecycle ==
    IF tool = "testimony"
    THEN <<"setup", "generating", "ready", "practicing", "completed">>
    ELSE <<"setup", "uploading", "analyzing", "ready", "completed">>

Rank(status) == CHOOSE n \in 1..Len(Lifecycle) : Lifecycle[n] = status

\* C15 as stated: no repository call other than the generic partial update
\* moves the status of a stored session to an earlier place of its
\* lifecycle, whatever status the session has.
C15_StatusForward ==
    lastOp.op \notin {"none", "update"}
    => \A n \in 1..Len(Before) :
         MapHas(Stored, Before[n].k)
         => Rank(MapGet(Stored, Before[n].k).status) >= Rank(Before[n].v.status)

\* no two records of the list have the same id
DistinctIds(list) ==
    \A i, j \in 1..Len(list) : i # j => list[i].id # list[j].id

\* C16 as stated: in every persisted state the session ids are pairwise
\* distinct, and within each session so are the document ids and the
\* question ids, whatever records the callers supplied.
C16_UniqueIds ==
    /\ \A i, j \in 1..Len(Stored) :
         i # j => (Stored[i].k # Stored[j].k /\ Stored[i].v.id # Stored[j].v.id)
    /\ \A n \in 1..Len(Stored) :
         DistinctIds(Stored[n].v.documents) /\ DistinctIds(Stored[n].v.questions)

\* the Map the last call handed to saveSessions, rebuilt from the store
\* before the call and the value the call returned
Attempted ==
    IF lastOp.op = "create"
    THEN Append(SelectSeq(Before, LAMBDA e : AgeAtCall(e) <= 24),
                [k |-> lastOp.id, v |-> lastOp.ret.v])
    ELSE IF lastOp.op = "delete"
    THEN SelectSeq(Before, LAMBDA e : e.k # lastOp.id)
    ELSE [n \in 1..Len(Before) |->
            IF Before[n].k = lastOp.id THEN [k |-> lastOp.id, v |-> lastOp.ret.v]
            ELSE Before[n]]

\* one aggressive cleanup pass over that Map: the sessions older than 12
\* hours go
AfterAggressiveCleanup == SelectSeq(Attempted, LAMBDA e : AgeAtCall(e) <= 12)

TooBig(m) == StoredSize(m) > quota

Wrote == lastOp.wrote \in {"first", "retry", "failed"}

\* C17: a write that exceeds the quota is followed by exactly one aggressive
\* cleanup pass (the sessions older than 12 hours are removed) and exactly
\* one retry: the store then holds the cleaned collection if that fits, and
\* keeps its previous content if it does not; the call returns its in-memory
\* result either way and never raises the error.
C17_QuotaRetryOnce ==
    Wrote
    => /\ lastOp.wrote = "first"
          => (~TooBig(Attempted) /\ store = Stringify(Attempted))
       /\ lastOp.wrote = "retry"
          => /\ TooBig(Attempted)
             /\ ~TooBig(AfterAggressiveCleanup)
             /\ store = Stringify(AfterAggressiveCleanup)
       /\ lastOp.wrote = "failed"
          => /\ TooBig(Attempted)
             /\ TooBig(AfterAggressiveCleanup)
             /\ store = lastOp.before
       /\ lastOp.ret.kind \in {"session", "boolean"}
       /\ lastOp.op # "delete" => (lastOp.ret.kind = "session" /\ lastOp.ret.v.id = lastOp.id)

\* a mutator's first write exceeded the quota, the cleanup took out a
\* session older than 12 hours and the retry stored the rest
C17_Witness ==
    /\ lastOp.wrote = "retry"
    /\ lastOp.op \notin {"create", "delete"}
    /\ Len(AfterAggressiveCleanup) < Len(Attempted)
    /\ store = Stringify(AfterAggressiveCleanup)

\* both writes of a mutator exceeded the quota: the store is as before and
\* the mutated session was returned
C17_RetryFailed ==
    /\ lastOp.wrote = "failed"
    /\ lastOp.op \notin {"create", "delete"}
    /\ store = lastOp.before
    /\ lastOp.ret.kind = "session"
    /\ lastOp.ret.v # MapGet(Before, lastOp.id)

(***************************************************************************)
(* Runs that start from a stored value the repository did not write        *)
(***************************************************************************)
\* the key of a stored null
NullKey == Uuid(1)

\* text that is not JSON, the JSON null, a JSON number, an object whose only
\* value is null, and an object holding a session next to a null
CorruptStores(t) ==
    {[kind |-> k, entries |-> <<>>] : k \in Unreadable}
    \cup {[kind |-> "sessions", entries |-> <<[k |-> NullKey, v |-> NullValue]>>],
          [kind |-> "sessions",
           entries |-> <<[k |-> Uuid(0),
                          v |-> IF t = "testimony" THEN SeedPractised ELSE SeedOutlined],
                         [k |-> NullKey, v |-> NullValue]>>]}

CorruptInit ==
    /\ tool \in {"testimony", "deposition"}
    /\ browser = TRUE
    /\ store \in CorruptStores(tool) \cup {Absent}
    /\ now = 0
    /\ quota \in Quotas
    /\ opsDone = 0
    /\ lastOp = NoOp
    /\ uuidNext = SeedUuids
    /\ fbCalls = <<>>
    /\ ParserIdle
    /\ ApiIdle
    /\ WebIdle
    /\ TabsIdle
    /\ UsageIdle

SpecCorrupt == CorruptInit /\ [][RepoNext]_vars

\* the stored value is missing, unreadable, or an object with no session in it
Corrupted(st) ==
    \/ st.kind \in Unreadable \cup {"absent"}
    \/ \A n \in 1..Len(st.entries) : IsNull(st.entries[n].v)

\* C18 as stated: when the stored blob is missing, is not valid JSON, or is
\* JSON that is not a map of sessions, get returns missing and list returns an
\* empty list, and no repository call raises an error.
C18_CorruptedIsEmpty ==
    /\ lastOp.ret.kind # "throws"
    /\ Corrupted(lastOp.before)
       => /\ lastOp.op = "get" => lastOp.ret = ReturnUndefined
          /\ lastOp.op = "getAll" => lastOp.ret = ReturnList(<<>>)

\* the part of C18 that holds: a missing key, text that is not JSON, the JSON
\* null and a JSON number are read as an empty collection, without an error
C18_UnreadableIsEmpty ==
    lastOp.before.kind \in Unreadable \cup {"absent"}
    => /\ lastOp.ret.kind # "throws"
       /\ lastOp.op = "get" => lastOp.ret = ReturnUndefined
       /\ lastOp.op = "getAll" => lastOp.ret = ReturnList(<<>>)

\* a create on a stored object with a null value ended in the TypeError
C18_CreateThrows ==
    /\ lastOp.op = "create"
    /\ lastOp.ret = ReturnThrows
    /\ store = lastOp.before

(***************************************************************************)
(* addDocument called from several tabs of the same origin.  Each tab runs *)
(* its call from loadSessions to return without yielding (the function is  *)
(* synchronous), but localStorage is shared by the tabs and has no lock:   *)
(* another tab's call may run between this tab's getItem and its setItem.  *)
(***************************************************************************)
\* tabs open on the application
MaxTabs == 2

\* addDocument calls started in one run
MaxTabCalls == 3

Tabs == 1..MaxTabs

TabIdle == [pc |-> "idle", id |-> UnknownId, sessions |-> <<>>, document |-> NoRecord]

\* the record the caller passes, with an id of its own
NewDocument(n) == [id |-> Uuid(n), name |-> "A.pdf", status |-> "ready"]

\* a push that forgets the documents already there
WithDocument_Only(sess, document) == [sess EXCEPT !.documents = <<document>>]

\* session.documents.push(document), line 113 (131)
WithDocument(sess, document) == [sess EXCEPT !.documents = Append(@, document)]

\* lines 109-111 (127-129): the tab's call loads the collection and finds
\* the session
BeginAddDocument(t) ==
    /\ opsDone < MaxTabCalls
    /\ tabs[t].pc = "idle"
    /\ \E id \in MapKeys(loadSessions) :
         tabs' = [tabs EXCEPT ![t] = [pc |-> "loaded", id |-> id, sessions |-> loadSessions,
                                      document |-> NewDocument(uuidNext)]]
    /\ uuidNext' = uuidNext + 1
    /\ opsDone' = opsDone + 1
    /\ UNCHANGED <<tool, browser, store, now, quota, lastOp, returned>>
    /\ UNCHANGED <<parserVars, apiVars, fbCalls, usageVars, webVars>>

\* the Map of tab t after lines 113-114 (131-132)
TabMap(t) ==
    MapSet(tabs[t].sessions, tabs[t].id,
           WithDocument(MapGet(tabs[t].sessions, tabs[t].id), tabs[t].document))

\* lines 113-116 (131-134): push, set, save the whole Map, return
FinishAddDocument(t) ==
    /\ tabs[t].pc = "loaded"
    /\ store' = saveSessions(TabMap(t)).store
    /\ returned' = Append(returned, [tab |-> t, id |-> tabs[t].id,
                                     document |-> tabs[t].document])
    /\ tabs' = [tabs EXCEPT ![t] = TabIdle]
    /\ UNCHANGED <<tool, browser, now, quota, opsDone, lastOp, uuidNext>>
    /\ UNCHANGED <<parserVars, apiVars, fbCalls, usageVars, webVars>>

\* two stored sessions, created at hour 0
TabSeed(t, n) ==
    [k |-> Uuid(n),
     v |-> [(IF t = "testimony" THEN SeedPlain ELSE SeedDeposition) EXCEPT !.id = Uuid(n)]]

TabsInit ==
    /\ tool \in {"testimony", "deposition"}
    /\ browser = TRUE
    /\ store = Stringify(<<TabSeed(tool, 0), TabSeed(tool, 1)>>)
    /\ now = 0
    /\ quota = MaxQuota
    /\ opsDone = 0
    /\ lastOp = NoOp
    /\ uuidNext = SeedUuids
    /\ tabs = [t \in Tabs |-> TabIdle]
    /\ returned = <<>>
    /\ fbCalls = <<>>
    /\ ParserIdle
    /\ ApiIdle
    /\ WebIdle
    /\ UsageIdle

TabsNext ==
    \/ \E t \in Tabs : BeginAddDocument(t)
    \/ \E t \in Tabs : FinishAddDocument(t)

SpecTabs == TabsInit /\ [][TabsNext]_vars

\* the store holds the document of a call that returned
Reflected(r) ==
    /\ MapHas(Stored, r.id)
    /\ \E n \in 1..Len(MapGet(Stored, r.id).documents) :
         MapGet(Stored, r.id).documents[n] = r.document

\* nothing was written to the store between the load of tab t's running
\* call and now
Undisturbed(t) == tabs[t].pc = "loaded" => Stored = tabs[t].sessions

\* the tabs that have a call running or returned
ActiveTabs ==
    {t \in Tabs : tabs[t].pc = "loaded"} \cup {returned[n].tab : n \in 1..Len(returned)}

\* C19 as stated: no other call reads or writes the store between a
\* mutator's load and its save, and after any interleaving of the mutator
\* calls the store reflects every one of them.
C19_AtomicNoLostUpdate ==
    /\ \A t \in Tabs : Undisturbed(t)
    /\ \A n \in 1..Len(returned) : Reflected(returned[n])

\* C19, amended: as long as the calls come from a single tab (execution
\* context) no other call touches the store between a mutator's load and its
\* save, and the store reflects every call that returned; with calls from
\* several tabs the store still reflects the call that saved last.
C19_SingleContextNoLostUpdate ==
    /\ Cardinality(ActiveTabs) <= 1
       => /\ \A t \in Tabs : Undisturbed(t)
          /\ \A n \in 1..Len(returned) : Reflected(returned[n])
    /\ returned # <<>> => Reflected(returned[Len(returned)])

\* one tab made all the calls, on both sessions, and all their documents are
\* stored
C19_Witness ==
    /\ Len(returned) = MaxTabCalls
    /\ Cardinality(ActiveTabs) = 1
    /\ \E i, j \in 1..Len(returned) : returned[i].id # returned[j].id
    /\ \A n \in 1..Len(returned) : Reflected(returned[n])

\* two tabs interleaved and the document of a call that returned is gone
C19_LostUpdate ==
    /\ Cardinality(ActiveTabs) = 2
    /\ \E n \in 1..Len(returned) : ~Reflected(returned[n])

(***************************************************************************)
(* The usage tracker (src/unnamed/part_004): token and OCR usage records   *)
(* in localStorage, the user id in localStorage and the session id in      *)
(* sessionStorage.  key is "token" or "ocr".                               *)
(***************************************************************************)
\* hours the usage clock advances in one step
UsageTickHours == 12

\* steps the usage clock makes in one run
MaxUsageTicks == 3

\* usage calls in one run
MaxUsageCalls == 3

\* 'server', the id returned without a window (lines 20, 32)
ServerId == -2

\* hours in a day
DayHours == 24

Id(n) == [kind |-> "id", v |-> n]

Record(u) == [kind |-> "record", v |-> u]

\* a stored value JSON.parse rejects, or parses to null
InvalidRecord == [kind |-> "invalid"]

\* localStorage.setItem throws when the storage is full
UsageWriteFails == quota = 0

\* lines 43-47: now >= resetDate
shouldResetDaily_Strict(resetAt) == now > resetAt

shouldResetDaily(resetAt) == now >= resetAt

\* lines 50-55: midnight local time of the next day
getNextDailyReset == ((now \div DayHours) + 1) * DayHours

\* lines 19-28 and 31-40, as createDefault...Usage calls them one after the
\* other: an id that is missing is made from uuidv4() and stored
WithUserId(U) ==
    IF U.userId.kind = "absent" THEN [U EXCEPT !.userId = Id(Uuid(uuidNext))] ELSE U

WithSessionId(U, n) ==
    IF U.sessionId.kind = "absent" THEN [U EXCEPT !.sessionId = Id(Uuid(n))] ELSE U

\* uuidv4() values used on the way from U to V
IdsMade(U, V) ==
    (IF U.userId # V.userId THEN 1 ELSE 0) + (IF U.sessionId # V.sessionId THEN 1 ELSE 0)

\* getUserId() then getSessionId()
WithIds(U) == WithSessionId(WithUserId(U), uuidNext + IdsMade(U, WithUserId(U)))

\* the counter a daily reset clears, and those a session change clears
DailyField(key) == IF key = "token" THEN "dailyTokens" ELSE "dailyPages"

SessionFields(key) ==
    IF key = "token" THEN {"sessionTokens"} ELSE {"sessionDocuments", "sessionPages"}

\* lines 95-105 and 175-184
createDefaultUsage(key, userId, sessionId) ==
    IF key = "token"
    THEN [userId |-> userId, sessionId |-> sessionId, requestTokens |-> 0,
          sessionTokens |-> 0, dailyTokens |-> 0, lastRequestAt |-> now,
          dailyResetAt |-> getNextDailyReset]
    ELSE [userId |-> userId, sessionId |-> sessionId, sessionDocuments |-> 0,
          sessionPages |-> 0, dailyPages |-> 0, dailyResetAt |-> getNextDailyReset]

Clear(u, fields) == [f \in DOMAIN u |-> IF f \in fields THEN 0 ELSE u[f]]

\* lines 107-115 and 186-194
saveUsage(key, U, u) ==
    IF ~isBrowser \/ UsageWriteFails THEN U ELSE [U EXCEPT ![key] = Record(u)]

\* lines 74-78 and 153-157
DailyChecked(key, u) ==
    IF shouldResetDaily(u.dailyResetAt)
    THEN [Clear(u, {DailyField(key)}) EXCEPT !.dailyResetAt = getNextDailyReset]
    ELSE u

\* lines 81-86 and 160-166
SessionChecked(key, u, currentSessionId) ==
    IF u.sessionId # currentSessionId
    THEN [Clear(u, SessionFields(key)) EXCEPT !.sessionId = currentSessionId]
    ELSE u

\* the outcome of a usage call: the record it returns and the storage after it
Outcome(ret, U) == [ret |-> ret, usage |-> U]

\* lines 65-69 and 144-148: nothing stored
FirstUsage(key, U) ==
    Outcome(createDefaultUsage(key, U.userId.v, U.sessionId.v),
            saveUsage(key, U, createDefaultUsage(key, U.userId.v, U.sessionId.v)))

\* lines 89-92 and 169-172: the catch
FailedUsage(key, U) == Outcome(createDefaultUsage(key, U.userId.v, U.sessionId.v), U)

\* lines 71-88 and 150-168: a record is stored; it is saved again after each
\* of the two checks that changed it
CheckedUsage(key, U, stored, u) ==
    Outcome(u, IF u # stored THEN saveUsage(key, U, u) ELSE U)

StoredUsage(key, U) ==
    CheckedUsage(key, U, U[key].v,
                 SessionChecked(key, DailyChecked(key, U[key].v), U.sessionId.v))

\* lines 58-93 and 137-173: getTokenUsage / getOCRUsage
getUsage(key, U) ==
    IF ~isBrowser THEN Outcome(createDefaultUsage(key, ServerId, ServerId), U)
    ELSE IF U[key].kind = "absent" THEN FirstUsage(key, WithIds(U))
    ELSE IF U[key].kind = "invalid" THEN FailedUsage(key, WithIds(U))
    ELSE StoredUsage(key, WithSessionId(U, uuidNext))

\* one usage call ends: the storage it leaves and what it returned
UsageCall(op, key, ret, U) ==
    /\ opsDone < MaxUsageCalls
    /\ usage' = U
    /\ lastUsage' = [op |-> op, key |-> key, before |-> usage, at |-> now, ret |-> ret]
    /\ uuidNext' = uuidNext + IdsMade(usage, U)
    /\ opsDone' = opsDone + 1
    /\ UNCHANGED <<tool, browser, store, now, quota, lastOp, limits>>
    /\ UNCHANGED <<parserVars, apiVars, fbCalls, tabVars, webVars>>

Read(op, key, res) == UsageCall(op, key, Record(res.ret), res.usage)

getTokenUsage == Read("getTokenUsage", "token", getUsage("token", usage))

getOCRUsage == Read("getOCRUsage", "ocr", getUsage("ocr", usage))

\* the call changed the record it read and saves it
Resaved(op, key, res, u) == UsageCall(op, key, Record(u), saveUsage(key, res.usage, u))

TokenInputs == {30000}

\* lines 117-127
recordTokenUsage ==
    \E tokens \in TokenInputs :
        Resaved("recordTokenUsage", "token", getUsage("token", usage),
                [getUsage("token", usage).ret EXCEPT !.requestTokens = tokens,
                                                     !.sessionTokens = @ + tokens,
                                                     !.dailyTokens = @ + tokens,
                                                     !.lastRequestAt = now])

OCRInputs == {[documents |-> 1, pages |-> 10]}

\* lines 196-205
recordOCRUsage ==
    \E in \in OCRInputs :
        Resaved("recordOCRUsage", "ocr", getUsage("ocr", usage),
                [getUsage("ocr", usage).ret EXCEPT !.sessionDocuments = @ + in.documents,
                                                   !.sessionPages = @ + in.pages,
                                                   !.dailyPages = @ + in.pages])

\* getSessionId() after the read: the id the read left in sessionStorage
CurrentSessionId(res) == IF isBrowser THEN res.usage.sessionId.v ELSE ServerId

\* lines 129-134 and 207-213; nothing is returned
ResetSession(op, key, res) ==
    UsageCall(op, key, NoRecord,
              saveUsage(key, res.usage,
                        [Clear(res.ret, SessionFields(key)) EXCEPT
                            !.sessionId = CurrentSessionId(res)]))

resetSessionTokens == ResetSession("resetSessionTokens", "token", getUsage("token", usage))

resetSessionOCR == ResetSession("resetSessionOCR", "ocr", getUsage("ocr", usage))

\* JavaScript numbers as far as the percentages need them: NaN, the two
\* infinities, and the rationals num/den with den > 0
NaN == [kind |-> "NaN"]

Infinity == [kind |-> "Infinity"]

NegInfinity == [kind |-> "-Infinity"]

RECURSIVE Gcd(_, _)
Gcd(a, b) == IF b = 0 THEN a ELSE Gcd(b, a % b)

\* the rational n/d, d > 0, in lowest terms
Num(n, d) ==
    [kind |-> "num",
     num |-> n \div Gcd(IF n < 0 THEN 0 - n ELSE n, d),
     den |-> d \div Gcd(IF n < 0 THEN 0 - n ELSE n, d)]

\* (used / limit) * 100 for integers: 0/0 is NaN, a division of a non-zero
\* number by 0 is infinite
Percent(used, limit) ==
    IF limit = 0
        THEN (IF used = 0 THEN NaN ELSE IF used > 0 THEN Infinity ELSE NegInfinity)
        ELSE IF limit > 0 THEN Num(used * 100, limit) ELSE Num(0 - used * 100, 0 - limit)

\* a <= b for numbers that are not NaN
Leq(a, b) ==
    \/ a.kind = "-Infinity"
    \/ b.kind = "Infinity"
    \/ /\ a.kind = "num"
       /\ b.kind = "num"
       /\ a.num * b.den <= b.num * a.den

\* Math.max and Math.min: NaN when an argument is NaN
MathMax(a, b) ==
    IF a.kind = "NaN" \/ b.kind = "NaN" THEN NaN ELSE IF Leq(a, b) THEN b ELSE a

MathMin(a, b) ==
    IF a.kind = "NaN" \/ b.kind = "NaN" THEN NaN ELSE IF Leq(a, b) THEN a ELSE b

\* lines 221-224, 237 and 226-229, 245
percentUsed(sessionUsed, sessionLimit, dailyUsed, dailyLimit) ==
    MathMin(Num(100, 1),
            MathMax(Percent(sessionUsed, sessionLimit), Percent(dailyUsed, dailyLimit)))

\* lines 216-248: the two reads one after the other, then the statistics
Stats(tokenUsage, ocrOutcome) ==
    UsageCall("getUsageStats", "both",
              Record([sessionUsed |-> tokenUsage.sessionTokens,
                      sessionLimit |-> limits.perSession,
                      dailyUsed |-> tokenUsage.dailyTokens,
                      dailyLimit |-> limits.perDayPerUser,
                      tokensPercentUsed |->
                          percentUsed(tokenUsage.sessionTokens, limits.perSession,
                                      tokenUsage.dailyTokens, limits.perDayPerUser),
                      documentsUsed |-> ocrOutcome.ret.sessionDocuments,
                      documentsLimit |-> limits.maxDocumentsPerSession,
                      pagesUsed |-> ocrOutcome.ret.sessionPages,
                      dailyPagesUsed |-> ocrOutcome.ret.dailyPages,
                      dailyPagesLimit |-> limits.maxPagesPerDay,
                      ocrPercentUsed |->
                          percentUsed(ocrOutcome.ret.sessionDocuments,
                                      limits.maxDocumentsPerSession,
                                      ocrOutcome.ret.dailyPages, limits.maxPagesPerDay)]),
              ocrOutcome.usage)

getUsageStats ==
    Stats(getUsage("token", usage).ret, getUsage("ocr", getUsage("token", usage).usage))

\* lines 251-255
clearAllUsage ==
    UsageCall("clearAllUsage", "both", NoRecord,
              IF isBrowser THEN [usage EXCEPT !.token = NoRecord, !.ocr = NoRecord] ELSE usage)

\* the browser session ends and a new one starts: sessionStorage is empty
NewBrowserSession ==
    /\ isBrowser
    /\ usage.sessionId # NoRecord
    /\ usage' = [usage EXCEPT !.sessionId = NoRecord]
    /\ UNCHANGED <<lastUsage, limits, uuidNext, repoVars, tabVars, webVars>>
    /\ UNCHANGED <<parserVars, apiVars, fbCalls>>

\* time passes
UsageTick ==
    /\ now + UsageTickHours <= MaxUsageTicks * UsageTickHours
    /\ now' = now + UsageTickHours
    /\ UNCHANGED <<tool, browser, store, quota, opsDone, lastOp, uuidNext>>
    /\ UNCHANGED <<parserVars, apiVars, fbCalls, tabVars, usageVars, webVars>>

\* the records recordTokenUsage(30000) and recordOCRUsage(1, 10) left at
\* hour 0 for user 0 in browser session 1
SeedTokenUsage ==
    [userId |-> Uuid(0), sessionId |-> Uuid(1), requestTokens |-> 30000,
     sessionTokens |-> 30000, dailyTokens |-> 30000, lastRequestAt |-> 0,
     dailyResetAt |-> DayHours]

SeedOCRUsage ==
    [userId |-> Uuid(0), sessionId |-> Uuid(1), sessionDocuments |-> 1,
     sessionPages |-> 10, dailyPages |-> 10, dailyResetAt |-> DayHours]

\* uuidv4() values the seeds hold
SeedIds == 2

\* nothing stored (first visit); the user id alone; records that cannot be
\* parsed; the records of an earlier visit, in the same browser session or
\* after it ended
UsageSeeds ==
    {NoUsage,
     [NoUsage EXCEPT !.userId = Id(Uuid(0))],
     [NoUsage EXCEPT !.userId = Id(Uuid(0)), !.token = InvalidRecord, !.ocr = InvalidRecord],
     [token |-> Record(SeedTokenUsage), ocr |-> Record(SeedOCRUsage),
      userId |-> Id(Uuid(0)), sessionId |-> Id(Uuid(1))],
     [token |-> Record(SeedTokenUsage), ocr |-> Record(SeedOCRUsage),
      userId |-> Id(Uuid(0)), sessionId |-> NoRecord]}

UsageInit ==
    /\ tool = "none"
    /\ browser \in BOOLEAN
    /\ store = Absent
    /\ now = 0
    /\ quota \in {0, 1}
    /\ opsDone = 0
    /\ lastOp = NoOp
    /\ uuidNext = SeedIds
    /\ usage \in UsageSeeds
    /\ quota = 0 => usage.userId # NoRecord
    /\ lastUsage = NoUsageCall
    /\ limits = DefaultLimits
    /\ fbCalls = <<>>
    /\ ParserIdle
    /\ ApiIdle
    /\ WebIdle
    /\ TabsIdle

UsageNext ==
    \/ UsageTick
    \/ NewBrowserSession
    \/ getTokenUsage
    \/ recordTokenUsage
    \/ resetSessionTokens
    \/ getOCRUsage
    \/ recordOCRUsage
    \/ resetSessionOCR
    \/ getUsageStats
    \/ clearAllUsage

SpecUsage == UsageInit /\ [][UsageNext]_vars

\* the last usage call was a read
IsRead == lastUsage.op \in {"getTokenUsage", "getOCRUsage"}

\* the record stored before the read, and the one the read returned
StoredBefore == lastUsage.before[lastUsage.key].v

ReadRecord == lastUsage.ret.v

\* a read in a browser that found a record it could parse
StoredRead == IsRead /\ isBrowser /\ lastUsage.before[lastUsage.key].kind = "record"

\* the time of the read has reached the stored reset timestamp
Reached == lastUsage.at >= StoredBefore.dailyResetAt

\* the stored session id is not the id of the browser session of the read
Differs ==
    \/ lastUsage.before.sessionId = NoRecord
    \/ lastUsage.before.sessionId.v # StoredBefore.sessionId

\* the first midnight after the read
NextMidnight ==
    CHOOSE m \in (lastUsage.at + 1)..(lastUsage.at + DayHours) : m % DayHours = 0

DailyCleared ==
    /\ ReadRecord[DailyField(lastUsage.key)] = 0
    /\ ReadRecord.dailyResetAt = NextMidnight

DailyKept ==
    /\ ReadRecord[DailyField(lastUsage.key)] = StoredBefore[DailyField(lastUsage.key)]
    /\ ReadRecord.dailyResetAt = StoredBefore.dailyResetAt

SessionCleared == \A f \in SessionFields(lastUsage.key) : ReadRecord[f] = 0

SessionKept == \A f \in SessionFields(lastUsage.key) : ReadRecord[f] = StoredBefore[f]

\* C20 as stated: on a read, a reset timestamp that has been reached clears
\* the daily counter and moves the timestamp to the next midnight while the
\* session counters are unchanged; a stored session id that differs from the
\* active one clears the session counters while the daily counter is
\* unchanged; otherwise no counter changes.
C20_ResetPolicy ==
    StoredRead
    => /\ Reached => (DailyCleared /\ SessionKept)
       /\ Differs => (SessionCleared /\ DailyKept)
       /\ (~Reached /\ ~Differs) => (DailyKept /\ SessionKept)

\* C20, amended: the two resets are independent.  The daily counter is
\* cleared and the timestamp moved to the next midnight exactly when the
\* stored timestamp has been reached; the session counters are cleared
\* exactly when the stored session id differs from the active one, whatever
\* the daily check did; nothing else in the record changes but the session
\* id.  A read that finds no record it can parse, or runs without a window,
\* returns a record with all counters 0.
C20_IndependentResets ==
    /\ StoredRead
       => /\ IF Reached THEN DailyCleared ELSE DailyKept
          /\ IF Differs THEN SessionCleared ELSE SessionKept
          /\ Differs = (ReadRecord.sessionId # StoredBefore.sessionId)
          /\ \A f \in (DOMAIN ReadRecord) \ (SessionFields(lastUsage.key)
                           \cup {DailyField(lastUsage.key), "dailyResetAt", "sessionId"}) :
               ReadRecord[f] = StoredBefore[f]
    /\ (IsRead /\ ~StoredRead)
       => /\ DailyCleared
          /\ SessionCleared

\* 30,000 tokens were recorded, the reset timestamp has been reached, the
\* browser session is the same: the read gives dailyTokens 0 and
\* sessionTokens 30,000
C20_Witness ==
    /\ lastUsage.op = "getTokenUsage"
    /\ StoredRead
    /\ StoredBefore.dailyTokens = 30000
    /\ StoredBefore.sessionTokens = 30000
    /\ Reached
    /\ ~Differs
    /\ ReadRecord.dailyTokens = 0
    /\ ReadRecord.sessionTokens = 30000

\* a read after midnight in a new browser session cleared both
C20_BothReset ==
    /\ StoredRead
    /\ Reached
    /\ Differs
    /\ StoredBefore[DailyField(lastUsage.key)] > 0
    /\ DailyCleared
    /\ SessionCleared

(***************************************************************************)
(* The statistics under configured limits.  parseEnvInt (part_005 6-11)    *)
(* takes any integer the environment gives, 0 and negative ones included.  *)
(***************************************************************************)
\* part_005 6-11: the value of an environment variable, which is unset
\* ("") or any text; the texts here are integers in decimal
DecimalDigits == <<"0", "1", "2", "3", "4", "5", "6", "7", "8", "9">>

IsDecimalDigit(c) == \E d \in 1..10 : DecimalDigits[d] = c

DecimalValue(c) == (CHOOSE d \in 1..10 : DecimalDigits[d] = c) - 1

\* the number of leading decimal digits of text from position i
RECURSIVE DigitRun(_, _)
DigitRun(text, i) ==
    IF i <= Len(text) /\ IsDecimalDigit(text[i]) THEN 1 + DigitRun(text, i + 1) ELSE 0

RECURSIVE DigitsValue(_, _, _)
DigitsValue(text, i, n) ==
    IF n = 0 THEN 0 ELSE DigitsValue(text, i, n - 1) * 10 + DecimalValue(text[i + n - 1])

\* parseInt(text, 10) on text without leading white space: an optional
\* sign, then the longest run of digits; NaN when there is no digit
parseInt(text) ==
    IF text # <<>> /\ text[1] \in {"-", "+"}
        THEN (IF DigitRun(text, 2) = 0 THEN NaN
              ELSE Num((IF text[1] = "-" THEN -1 ELSE 1)
                         * DigitsValue(text, 2, DigitRun(text, 2)), 1))
        ELSE (IF DigitRun(text, 1) = 0 THEN NaN
              ELSE Num(DigitsValue(text, 1, DigitRun(text, 1)), 1))

parseEnvInt(value, defaultValue) ==
    IF value = <<>> THEN defaultValue
    ELSE IF parseInt(value) = NaN THEN defaultValue
    ELSE parseInt(value).num

\* values of DEMO_TOKEN_PER_SESSION, DEMO_TOKEN_PER_DAY,
\* DEMO_OCR_MAX_DOCS_PER_SESSION, DEMO_OCR_MAX_PAGES_PER_DAY: unset or
\* empty, numbers, 0, negative numbers, and text that is no number
Environments ==
    {[session |-> <<>>, day |-> <<>>, docs |-> <<>>, pages |-> <<>>],
     [session |-> <<"3", "0", "0", "0", "0">>, day |-> <<"6", "0", "0", "0", "0">>,
      docs |-> <<"2">>, pages |-> <<"2", "0", "p">>],
     [session |-> <<"0">>, day |-> <<"n", "o">>, docs |-> <<"0">>, pages |-> <<"-">>],
     [session |-> <<"0">>, day |-> <<"0">>, docs |-> <<"0">>, pages |-> <<"0">>],
     [session |-> <<"-", "1">>, day |-> <<"-", "1">>, docs |-> <<"-", "1">>,
      pages |-> <<"-", "1">>]}

\* part_005 33-44
DEMO_LIMITS(env) ==
    [perRequest |-> 4000,
     maxFileSize |-> 5 * 1024 * 1024,
     maxPagesPerDocument |-> 10,
     perSession |-> parseEnvInt(env.session, 50000),
     perDayPerUser |-> parseEnvInt(env.day, 100000),
     maxDocumentsPerSession |-> parseEnvInt(env.docs, 5),
     maxPagesPerDay |-> parseEnvInt(env.pages, 50)]

StatsInit ==
    /\ tool = "none"
    /\ browser = TRUE
    /\ store = Absent
    /\ now = 0
    /\ quota = 1
    /\ opsDone = 0
    /\ lastOp = NoOp
    /\ uuidNext = SeedIds
    /\ usage \in {u \in UsageSeeds : u.sessionId # NoRecord \/ u.userId = NoRecord}
    /\ lastUsage = NoUsageCall
    /\ limits \in {DEMO_LIMITS(env) : env \in Environments}
    /\ fbCalls = <<>>
    /\ ParserIdle
    /\ ApiIdle
    /\ WebIdle
    /\ TabsIdle

SpecStats == StatsInit /\ [][UsageNext]_vars

\* the statistics the last call returned
IsStats == lastUsage.op = "getUsageStats"

StatsReturned == lastUsage.ret.v

\* a percentage between 0 and 100
InRange(p) == p.kind = "num" /\ 0 <= p.num /\ p.num <= 100 * p.den

IsHundred(p) == p = Num(100, 1)

TokensReached ==
    \/ StatsReturned.sessionUsed >= StatsReturned.sessionLimit
    \/ StatsReturned.dailyUsed >= StatsReturned.dailyLimit

OCRReached ==
    \/ StatsReturned.documentsUsed >= StatsReturned.documentsLimit
    \/ StatsReturned.dailyPagesUsed >= StatsReturned.dailyPagesLimit

NonNegativeCounters ==
    /\ StatsReturned.sessionUsed >= 0
    /\ StatsReturned.dailyUsed >= 0
    /\ StatsReturned.documentsUsed >= 0
    /\ StatsReturned.dailyPagesUsed >= 0

\* C21: for non-negative counters and all configured integer limits, the
\* percentUsed getUsageStats reports for tokens and for OCR is between 0 and
\* 100 inclusive, and is 100 whenever a counter has reached its limit.
C21_PercentClamped ==
    (IsStats /\ NonNegativeCounters)
    => /\ InRange(StatsReturned.tokensPercentUsed)
       /\ InRange(StatsReturned.ocrPercentUsed)
       /\ TokensReached => IsHundred(StatsReturned.tokensPercentUsed)
       /\ OCRReached => IsHundred(StatsReturned.ocrPercentUsed)

PositiveLimits ==
    /\ limits.perSession > 0
    /\ limits.perDayPerUser > 0
    /\ limits.maxDocumentsPerSession > 0
    /\ limits.maxPagesPerDay > 0

\* with limits that are all positive the percentages are as C21 says
C21_PositiveLimits == PositiveLimits => C21_PercentClamped

\* a limit configured as 0 with nothing used yet: the percentage is NaN
C21_NaN ==
    /\ IsStats
    /\ StatsReturned.sessionLimit = 0
    /\ StatsReturned.sessionUsed = 0
    /\ StatsReturned.tokensPercentUsed = NaN

\* a limit was reached and the percentage is 100
C21_Clamped ==
    /\ IsStats
    /\ PositiveLimits
    /\ StatsReturned.sessionUsed > StatsReturned.sessionLimit
    /\ StatsReturned.documentsUsed >= StatsReturned.documentsLimit
    /\ IsHundred(StatsReturned.tokensPercentUsed)
    /\ IsHundred(StatsReturned.ocrPercentUsed)

(***************************************************************************)
(* POST /api/testimony/ocr (src/app/api/testimony/ocr/route.ts).  A file   *)
(* name is a sequence of characters; a text is a sequence of pieces.       *)
(* processDocumentOCR is the client of the external OCR service: it        *)
(* rejects, or resolves with what the service sent.                        *)
(***************************************************************************)
\* the pages a result of the OCR service lists, at most
MaxOcrPages == 2

\* route.ts 33-40
allowedTypes ==
    {"application/pdf", "image/png", "image/jpeg", "image/tiff", "application/msword",
     "application/vnd.openxmlformats-officedocument.wordprocessingml.document"}

\* route.ts 41
allowedExtensions ==
    {<<".", "p", "d", "f">>, <<".", "p", "n", "g">>, <<".", "j", "p", "g">>,
     <<".", "j", "p", "e", "g">>, <<".", "t", "i", "f", "f">>, <<".", "d", "o", "c">>,
     <<".", "d", "o", "c", "x">>}

\* String.prototype.toLowerCase on the letters the file names here use
LowerChar(c) ==
    CASE c = "T" -> "t"
      [] c = "X" -> "x"
      [] c = "P" -> "p"
      [] c = "D" -> "d"
      [] c = "F" -> "f"
      [] OTHER -> c

toLowerCase(chars) == [i \in 1..Len(chars) |-> LowerChar(chars[i])]

\* the position of the last "." of a name, 0 when it has none
LastDot(name) ==
    IF \E i \in 1..Len(name) : name[i] = "."
        THEN CHOOSE i \in 1..Len(name) :
                 /\ name[i] = "."
                 /\ \A j \in (i + 1)..Len(name) : name[j] # "."
        ELSE 0

\* name.split('.').pop(): what follows the last ".", the whole name when
\* there is none
LastSegment(name) == SubSeq(name, LastDot(name) + 1, Len(name))

\* route.ts 43
fileExtension(name) == <<".">> \o toLowerCase(LastSegment(name))

endsWith(chars, suffix) ==
    /\ Len(suffix) <= Len(chars)
    /\ SubSeq(chars, Len(chars) - Len(suffix) + 1, Len(chars)) = suffix

\* route.ts 44
isAllowedType(file) ==
    file.type \in allowedTypes \/ fileExtension(file.name) \in allowedExtensions

\* route.ts 54
IsTextFile(file) == file.type = "text/plain" \/ endsWith(file.name, <<".", "t", "x", "t">>)

\* NextResponse.json(body, {status}), 200 when no status is given
Json(status, body) == [status |-> status, body |-> body]

NoOcrResponse == Json(0, [none |-> TRUE])

NoFile == [name |-> <<>>, type |-> "", size |-> -1, text |-> <<>>]

NoOcrResult == [kind |-> "none"]

\* route.ts 99-106
Placeholder(name) ==
    <<"[Document: ">> \o name
        \o <<"]\n\nOCR processing is currently unavailable. Please upload a text file (.txt) for full content analysis, or try again later.">>

\* the error of the OCR call reaches the outer catch
OnOcrError_Propagate(file) == Json(500, [error |-> "Failed to process document"])

\* route.ts 96-107: the catch around the OCR call
OnOcrError(file) ==
    Json(200, [text |-> Placeholder(file.name), pageCount |-> 1, status |-> "fallback",
               ocrUsed |-> FALSE, error |-> "OCR service temporarily unavailable"])

\* route.ts 108-114
OnError == Json(500, [error |-> "Failed to process document"])

\* route.ts 69: result.page_count || result.pages?.length || 1
PageCount(r) ==
    IF r.page_count # 0 THEN r.page_count
    ELSE IF r.pages.isArray /\ Len(r.pages.items) # 0 THEN Len(r.pages.items)
    ELSE 1

\* Array.prototype.join of the page texts
RECURSIVE JoinPages(_)
JoinPages(items) ==
    IF items = <<>> THEN <<>>
    ELSE IF Len(items) = 1 THEN items[1]
    ELSE items[1] \o <<"\n\n--- Page Break ---\n\n">> \o JoinPages(Tail(items))

\* route.ts 83-88
FullText(r) ==
    IF r.pages.isArray THEN JoinPages(r.pages.items)
    ELSE IF r.text # <<>> THEN r.text
    ELSE <<>>

\* route.ts 68-95: the OCR call resolved with r
OnOcrResult(r) ==
    IF PageCount(r) > limits.maxPagesPerDocument
        THEN Json(400, [error |-> "exceeds demo limit of pages", limitReached |-> TRUE,
                        limitType |-> "pagesPerDocument", pageCount |-> PageCount(r)])
        ELSE Json(200, [text |-> FullText(r), pageCount |-> PageCount(r),
                        status |-> "completed", ocrUsed |-> TRUE])

\* route.ts 11-62: the checks made on a file before any OCR call; "text"
\* and "ocr" are the two awaits that can follow
Checked(file) ==
    IF file.size > limits.maxFileSize
        THEN [pc |-> "done",
              response |-> Json(400, [error |-> "File size exceeds demo limit",
                                      limitReached |-> TRUE, limitType |-> "fileSize"])]
    ELSE IF ~isAllowedType(file)
        THEN [pc |-> "done",
              response |-> Json(400, [error |-> "Invalid file type. Allowed: PDF, PNG, JPG, TIFF, DOC, DOCX"])]
    ELSE IF IsTextFile(file)
        THEN [pc |-> "text", response |-> NoOcrResponse]
    ELSE [pc |-> "ocr", response |-> NoOcrResponse]

\* the uploads tried
FileNames ==
    {<<"a", ".", "t", "x", "t">>, <<"a", ".", "T", "X", "T">>, <<"a", ".", "p", "d", "f">>,
     <<"a", ".", "P", "D", "F">>, <<"a", ".", "p", "d", "f", ".", "t", "x", "t">>,
     <<"p", "d", "f">>, <<"a", ".", "e", "x", "e">>}

FileTypes == {"text/plain", "application/pdf", "image/png", ""}

FileSizes == {1, limits.maxFileSize, limits.maxFileSize + 1}

FileTexts == {<<>>, <<"deposition of the witness">>}

Files == [name : FileNames, type : FileTypes, size : FileSizes, text : FileTexts]

\* what the OCR service can send: {text, page_count}, {pages: [{text}]},
\* both, neither, and more pages than a document may have
PageLists ==
    UNION {[1..n -> {<<"page">>}] : n \in 0..MaxOcrPages}
        \cup {[i \in 1..(limits.maxPagesPerDocument + 1) |-> <<"page">>]}

OcrResults ==
    [kind : {"value"},
     page_count : {0, 1, limits.maxPagesPerDocument, limits.maxPagesPerDocument + 1},
     pages : [isArray : {TRUE}, items : PageLists] \cup {[isArray |-> FALSE, items |-> <<>>]},
     text : {<<>>, <<"extracted text">>}]

\* lines 8-62: request.formData() rejects; no file field; the checks
OcrReceive ==
    /\ ocr.pc = "start"
    /\ \/ ocr' = [ocr EXCEPT !.pc = "done", !.response = OnError]
       \/ ocr' = [ocr EXCEPT !.pc = "done",
                             !.response = Json(400, [error |-> "No file provided"])]
       \/ \E file \in Files :
              ocr' = [ocr EXCEPT !.file = file,
                                 !.pc = Checked(file).pc,
                                 !.response = Checked(file).response,
                                 !.calls = IF Checked(file).pc = "ocr" THEN 1 ELSE 0]
    /\ UNCHANGED <<login, parserVars, apiVars, uuidNext, fbCalls, repoVars, tabVars, usageVars>>

\* lines 55-61: file.text() resolved
OcrText ==
    /\ ocr.pc = "text"
    /\ ocr' = [ocr EXCEPT !.pc = "done",
                          !.response = Json(200, [text |-> ocr.file.text, pageCount |-> 1,
                                                  status |-> "completed", ocrUsed |-> FALSE])]
    /\ UNCHANGED <<login, parserVars, apiVars, uuidNext, fbCalls, repoVars, tabVars, usageVars>>

\* lines 66-95: processDocumentOCR resolved with a result
OcrResolve ==
    /\ ocr.pc = "ocr"
    /\ \E r \in OcrResults :
           ocr' = [ocr EXCEPT !.pc = "done", !.result = r, !.response = OnOcrResult(r)]
    /\ UNCHANGED <<login, parserVars, apiVars, uuidNext, fbCalls, repoVars, tabVars, usageVars>>

\* lines 66, 96-107: processDocumentOCR rejected, or resolved with
\* undefined so that line 69 raised a TypeError
OcrReject ==
    /\ ocr.pc = "ocr"
    /\ \E kind \in {"rejected", "undefined"} :
           ocr' = [ocr EXCEPT !.pc = "done", !.result = [kind |-> kind],
                              !.response = OnOcrError(ocr.file)]
    /\ UNCHANGED <<login, parserVars, apiVars, uuidNext, fbCalls, repoVars, tabVars, usageVars>>

OcrInit ==
    /\ ocr = [pc |-> "start", file |-> NoFile, calls |-> 0, result |-> NoOcrResult,
              response |-> NoOcrResponse]
    /\ login = NoLogin
    /\ uuidNext = 0
    /\ fbCalls = <<>>
    /\ ParserIdle
    /\ ApiIdle
    /\ RepoIdle

OcrNext ==
    \/ OcrReceive
    \/ OcrText
    \/ OcrResolve
    \/ OcrReject

SpecOcr == OcrInit /\ [][OcrNext]_vars

\* the handler has answered
OcrDone == ocr.pc = "done"

OcrFailed == OcrDone /\ ocr.result.kind \in {"rejected", "undefined"}

IsFallback(r, file) ==
    /\ r.status = 200
    /\ r.body.text = Placeholder(file.name)
    /\ r.body.pageCount = 1
    /\ r.body.status = "fallback"
    /\ r.body.ocrUsed = FALSE

\* C22: when the OCR call fails for an accepted file, the endpoint answers
\* with a non-error response that carries the placeholder text naming the
\* file, pageCount 1, status 'fallback' and ocrUsed false.
C22_OcrFailureFallback == OcrFailed => IsFallback(ocr.response, ocr.file)

\* the OCR call for a.pdf was rejected and the placeholder was returned
C22_Witness ==
    /\ OcrDone
    /\ ocr.result.kind = "rejected"
    /\ ocr.calls = 1
    /\ ocr.file.name = <<"a", ".", "p", "d", "f">>
    /\ IsFallback(ocr.response, ocr.file)

IsTextRead(r, file) ==
    /\ r.status = 200
    /\ r.body.text = file.text
    /\ r.body.pageCount = 1
    /\ r.body.status = "completed"
    /\ r.body.ocrUsed = FALSE

\* an upload with a file, within the size limit
Uploaded == OcrDone /\ ocr.file # NoFile /\ ocr.file.size <= limits.maxFileSize

\* C24: an upload of type text/plain or with a name ending in .txt, within
\* the size limit, is answered with the file's text, pageCount 1, status
\* 'completed' and ocrUsed false, and no OCR call is made for it.
C24_TextReadDirectly ==
    (Uploaded /\ IsTextFile(ocr.file))
    => /\ IsTextRead(ocr.response, ocr.file)
       /\ ocr.calls = 0

\* the part of C24 that holds: no OCR call is made for a text file, and the
\* text is returned when the allow-list lets the file through
C24_AllowedTextRead ==
    (Uploaded /\ IsTextFile(ocr.file))
    => /\ ocr.calls = 0
       /\ isAllowedType(ocr.file) => IsTextRead(ocr.response, ocr.file)
       /\ ~isAllowedType(ocr.file) => ocr.response.status = 400

\* a.txt of type text/plain is rejected as an invalid file type
C24_TextRejected ==
    /\ Uploaded
    /\ ocr.file.name = <<"a", ".", "t", "x", "t">>
    /\ ocr.file.type = "text/plain"
    /\ ocr.response.status = 400

\* a text file that the allow-list lets through is read without OCR
C24_TextRead ==
    /\ Uploaded
    /\ IsTextFile(ocr.file)
    /\ IsTextRead(ocr.response, ocr.file)
    /\ ocr.file.text # <<>>

(***************************************************************************)
(* Practice history                                                        *)
(***************************************************************************)
RECURSIVE SumDurations(_)
SumDurations(history) ==
    IF history = <<>> THEN 0 ELSE history[1].duration + SumDurations(Tail(history))

\* addPracticeExchange found the session and returned it
AppendCall == lastOp.op = "addPracticeExchange" /\ lastOp.ret.kind = "session"

HistoryBefore == MapGet(Before, lastOp.id).practiceHistory

HistoryReturned == lastOp.ret.v.practiceHistory

\* h is the history before the call and one exchange after it
OneAppended(h) ==
    /\ Len(h) = Len(HistoryBefore) + 1
    /\ SubSeq(h, 1, Len(HistoryBefore)) = HistoryBefore
    /\ h[Len(h)] \in ExchangeInputs

\* every stored testimony session has the total of its history
TotalsAgree ==
    tool = "testimony"
    => \A n \in 1..Len(Stored) :
         IsNull(Stored[n].v)
         \/ Stored[n].v.totalDuration = SumDurations(Stored[n].v.practiceHistory)

\* C23 as stated: after addPracticeExchange calls on a session its
\* practiceHistory is the exchanges in call order, the earlier exchanges are
\* unchanged by a later append, and totalDuration is the sum of the
\* durations of the exchanges in practiceHistory.
C23_AppendOnly ==
    /\ TotalsAgree
    /\ AppendCall
       => /\ MapHas(Stored, lastOp.id)
          /\ OneAppended(MapGet(Stored, lastOp.id).practiceHistory)
          /\ MapGet(Stored, lastOp.id).practiceHistory = HistoryReturned

\* C23, amended: the session addPracticeExchange returns has the stored
\* history with the new exchange after it and the stored total plus its
\* duration; the persisted session is that session when the write succeeded
\* at the first attempt, and also after the quota retry unless the cleanup
\* removed the session; when the write was dropped the persisted history is
\* the one before the call.  In every persisted session totalDuration is
\* the sum of the durations in practiceHistory.
C23_AppendOnlyWhenWritten ==
    /\ TotalsAgree
    /\ AppendCall
       => /\ OneAppended(HistoryReturned)
          /\ lastOp.ret.v.totalDuration = SumDurations(HistoryReturned)
          /\ lastOp.wrote = "first"
             => (MapHas(Stored, lastOp.id) /\ MapGet(Stored, lastOp.id) = lastOp.ret.v)
          /\ (lastOp.wrote = "retry" /\ MapHas(Stored, lastOp.id))
             => MapGet(Stored, lastOp.id) = lastOp.ret.v
          /\ lastOp.wrote = "failed" => store = lastOp.before

\* e2 appended to a history that held e1: both are stored, e1 first, with
\* the sum of their durations
C23_Witness ==
    /\ AppendCall
    /\ lastOp.wrote = "first"
    /\ Len(HistoryBefore) = 1
    /\ HistoryBefore[1].id = "e1"
    /\ HistoryReturned[2].id = "e2"
    /\ MapGet(Stored, lastOp.id).practiceHistory = <<HistoryBefore[1], HistoryReturned[2]>>
    /\ MapGet(Stored, lastOp.id).totalDuration = 75

\* an exchange was returned as appended and is not in the persisted history
C23_Dropped ==
    /\ AppendCall
    /\ lastOp.wrote = "failed"
    /\ MapGet(Stored, lastOp.id).practiceHistory = HistoryBefore

(***************************************************************************)
(* The prompt of the question-generation request                           *)
(***************************************************************************)
\* the LLM call of a question-generation request has been made
GenCalled == route = "generate" /\ llmCalls >= 1

\* the request's documents, each cut as lines 373-376 cut it
TruncatedDocs == [n \in 1..Len(req.documents.v) |-> TruncatedDoc(req.documents.v[n])]

\* C25: when the estimated tokens of a question-generation request exceed
\* the per-request limit, the document content in the prompt sent to the
\* LLM is the truncated one; when the estimate is within the limit the
\* documents are sent as they came.
C25_PromptTruncated ==
    GenCalled
    => promptDocs = IF req.overLimit THEN TruncatedDocs ELSE req.documents.v

\* what the handler does: the prompt always has the documents as they came,
\* and the truncated copies go to body.documents only
C25_PromptNeverTruncated ==
    GenCalled
    => /\ promptDocs = req.documents.v
       /\ bodyDocs = IF req.overLimit THEN TruncatedDocs ELSE req.documents.v

\* a request over the limit was sent with a document in full
C25_SentInFull ==
    /\ GenCalled
    /\ req.overLimit
    /\ promptDocs = req.documents.v
    /\ promptDocs # TruncatedDocs
    /\ bodyDocs = TruncatedDocs

(***************************************************************************)
(* The login page (src/app/login/page.tsx).  handleLogin is reachable only *)
(* through the button's onClick and the input's onKeyDown; an update made  *)
(* inside such an event handler is rendered before the next event, one     *)
(* made after an await is rendered later (Render).  Time is in seconds.    *)
(***************************************************************************)
MaxLoginAttempts == 2

LoginTickSeconds == 5

MaxLoginTicks == 4

\* page.tsx 36: setTimeout(() => controller.abort(), 10000)
TimeoutSeconds == 10

KeyPrefix == <<"s", "k", "_", "c", "a", "s", "e", "_">>

\* what the user types
KeyInputs == {<<>>, <<" ">>, <<"x">>, <<" ">> \o KeyPrefix, KeyPrefix \o <<"1">>}

TimedOutMessage == "Request timed out. Please check your connection and try again."

FailedMessage == "Failed to validate API key. Please check your connection and try again."

\* page.tsx 63-73: the catch block (the timer is cleared by the caller)
OnLoginError(L, message) ==
    [L EXCEPT !.error = message, !.loading = FALSE,
              !.requests[Len(L.requests)].message = message,
              !.requests[Len(L.requests)].endedAt = L.clock]

\* a request as sent; message and endedAt record how a failed attempt ended
NewRequest(L) ==
    [sentAt |-> L.clock, state |-> "pending", timer |-> "armed", ok |-> FALSE,
     message |-> "", endedAt |-> -1]

\* page.tsx 16-45: handleLogin up to its first await; loading is the value
\* of the render the handler belongs to
handleLogin(L, loading) ==
    IF Trim(L.apiKey) = <<>>
        THEN [L EXCEPT !.error = "Please enter your Case.dev API key"]
    ELSE IF ~StartsWithAt(L.apiKey, 1, KeyPrefix)
        THEN [L EXCEPT !.error = "Invalid API key format. Case.dev API keys start with 'sk_case_'"]
    ELSE IF loading
        THEN L
    ELSE [L EXCEPT !.loading = TRUE, !.error = "",
                   !.requests = Append(@, NewRequest(L))]

\* the render after an event handler ran
Flushed(L) == [L EXCEPT !.seen = L.loading]

LoginFrame == UNCHANGED <<ocr, parserVars, apiVars, uuidNext, fbCalls, repoVars, tabVars, usageVars>>

Mounted == login.pc = "mounted"

\* page.tsx 123, 130: onChange of the input, which is disabled while loading
Type ==
    /\ Mounted
    /\ ~login.seen
    /\ \E k \in KeyInputs :
           /\ k # login.apiKey
           /\ login' = [login EXCEPT !.apiKey = k]
    /\ LoginFrame

\* page.tsx 144-148: the button, disabled={!apiKey || loading}
Click ==
    /\ Mounted
    /\ ~(login.apiKey = <<>> \/ login.seen)
    /\ Len(login.requests) < MaxLoginAttempts
    /\ login' = Flushed(handleLogin(login, login.seen))
    /\ LoginFrame

\* page.tsx 124-130: Enter in the input, disabled={loading}
Enter ==
    /\ Mounted
    /\ ~login.seen
    /\ login.apiKey # <<>>
    /\ Len(login.requests) < MaxLoginAttempts
    /\ login' = Flushed(handleLogin(login, login.seen))
    /\ LoginFrame

\* the request of the attempt under way
Current == login.requests[Len(login.requests)]

WithCurrent(L, r) == [L EXCEPT !.requests[Len(L.requests)] = r]

Awaiting(state) == Mounted /\ login.requests # <<>> /\ Current.state = state

\* page.tsx 40-47: fetch resolved with the response's status line and
\* headers; the timer is cleared and response.json() awaited
FetchResolves ==
    /\ Awaiting("pending")
    /\ \E ok \in BOOLEAN :
           login' = WithCurrent(login, [Current EXCEPT !.state = "body", !.timer = "cleared",
                                                       !.ok = ok])
    /\ LoginFrame

\* page.tsx 40, 63-73: fetch rejected with a network error
FetchRejects ==
    /\ Awaiting("pending")
    /\ login' = OnLoginError(WithCurrent(login, [Current EXCEPT !.state = "failed",
                                                                 !.timer = "cleared"]),
                             FailedMessage)
    /\ LoginFrame

\* page.tsx 36, 63-73: the timer fires, controller.abort() rejects the
\* pending fetch with an AbortError
TimerFires ==
    /\ Awaiting("pending")
    /\ Current.timer = "armed"
    /\ login.clock >= Current.sentAt + TimeoutSeconds
    /\ login' = OnLoginError(WithCurrent(login, [Current EXCEPT !.state = "aborted",
                                                                 !.timer = "fired"]),
                             TimedOutMessage)
    /\ LoginFrame

\* page.tsx 49-62: response.json() resolved.  Not ok (51-56): the error of
\* the body or the default one, and loading cleared as in the catch block.  Ok: setApiKey, which writes localStorage and
\* can throw, then router.push
BodyResolves ==
    /\ Awaiting("body")
    /\ IF ~Current.ok
       THEN \E message \in {"Invalid API key - please check your credentials", ""} :
                login' = OnLoginError(WithCurrent(login, [Current EXCEPT !.state = "failed"]),
                                      IF message # "" THEN message ELSE "Invalid API key")
       ELSE \/ login' = [WithCurrent(login, [Current EXCEPT !.state = "verified"]) EXCEPT
                            !.storedKey = login.apiKey, !.pc = "redirected"]
            \/ login' = OnLoginError(WithCurrent(login, [Current EXCEPT !.state = "failed"]),
                                     FailedMessage)
    /\ LoginFrame

\* page.tsx 49, 63-73: response.json() rejected (the body is not JSON, or
\* the connection broke)
BodyRejects ==
    /\ Awaiting("body")
    /\ login' = OnLoginError(WithCurrent(login, [Current EXCEPT !.state = "failed"]),
                             FailedMessage)
    /\ LoginFrame

\* the render of an update made after an await
Render ==
    /\ Mounted
    /\ login.seen # login.loading
    /\ login' = Flushed(login)
    /\ LoginFrame

\* a timer is set and the fetch it guards is pending
TimerArmed == Awaiting("pending") /\ Current.timer = "armed"

\* time passes, up to the moment an armed timer is due: the timer fires
\* before more time passes
LoginTick ==
    /\ Mounted
    /\ login.clock < MaxLoginTicks * LoginTickSeconds
    /\ ~(TimerArmed /\ login.clock >= Current.sentAt + TimeoutSeconds)
    /\ login' = [login EXCEPT !.clock =
                     IF TimerArmed /\ @ + LoginTickSeconds > Current.sentAt + TimeoutSeconds
                     THEN Current.sentAt + TimeoutSeconds
                     ELSE @ + LoginTickSeconds]
    /\ LoginFrame

LoginInit ==
    /\ login = [pc |-> "mounted", apiKey |-> <<>>, loading |-> FALSE, error |-> "",
                seen |-> FALSE, requests |-> <<>>, clock |-> 0, storedKey |-> <<>>]
    /\ ocr = NoOcr
    /\ uuidNext = 0
    /\ fbCalls = <<>>
    /\ ParserIdle
    /\ ApiIdle
    /\ RepoIdle

LoginNext ==
    \/ Type
    \/ Click
    \/ Enter
    \/ FetchResolves
    \/ FetchRejects
    \/ TimerFires
    \/ BodyResolves
    \/ BodyRejects
    \/ Render
    \/ LoginTick

SpecLogin == LoginInit /\ [][LoginNext]_vars

\* the requests whose response has not been read to the end
Outstanding ==
    {n \in 1..Len(login.requests) : login.requests[n].state \in {"pending", "body"}}

AtMostOneOutstanding == Cardinality(Outstanding) <= 1

\* a request is outstanding exactly while the loading flag is set on the
\* mounted page, so none is sent while it is set
SentOnlyWhenIdle ==
    Mounted => (login.loading <=> Outstanding # {})

\* a request is aborted by the timer only, when the timeout has passed, and
\* its attempt ends with the 'timed out' message
AbortedTimedOut ==
    \A n \in 1..Len(login.requests) :
        login.requests[n].state = "aborted"
        => /\ login.requests[n].timer = "fired"
           /\ login.requests[n].message = TimedOutMessage
           /\ login.requests[n].endedAt >= login.requests[n].sentAt + TimeoutSeconds

\* after a failed or timed-out attempt the flag is cleared
ClearedAfterFailure ==
    (login.requests # <<>> /\ Current.state \in {"failed", "aborted"})
    => ~login.loading

\* no request is outstanding for longer than the timeout
AbortedInTime ==
    \A n \in Outstanding : login.clock <= login.requests[n].sentAt + TimeoutSeconds

\* C26: at most one key-verification request is outstanding, none is sent
\* while loading is set, a request in flight is aborted after the timeout
\* with the 'timed out' message, and after a failed or timed-out attempt
\* the loading flag is cleared.
C26_DebouncedWithTimeout ==
    /\ AtMostOneOutstanding
    /\ SentOnlyWhenIdle
    /\ AbortedInTime
    /\ AbortedTimedOut
    /\ ClearedAfterFailure

\* the part of C26 that holds: the debounce, the clearing of the flag, and
\* the timeout for a request whose response has not started to arrive
C26_DebouncedUntilResponse ==
    /\ AtMostOneOutstanding
    /\ SentOnlyWhenIdle
    /\ \A n \in Outstanding :
         login.requests[n].state = "pending"
         => login.clock <= login.requests[n].sentAt + TimeoutSeconds
    /\ AbortedTimedOut
    /\ ClearedAfterFailure

\* the response arrived in time, its body did not: more than the timeout
\* after the request was sent the page is still loading
C26_StuckLoading ==
    /\ Outstanding # {}
    /\ Current.state = "body"
    /\ Current.timer = "cleared"
    /\ login.clock > Current.sentAt + TimeoutSeconds
    /\ login.loading
    /\ login.seen

\* a first attempt timed out and a second one is in flight
C26_SecondAttempt ==
    /\ Len(login.requests) = 2
    /\ login.requests[1].state = "aborted"
    /\ login.requests[2].state = "pending"

(***************************************************************************)
(* Frame of the mutators                                                   *)
(***************************************************************************)
\* update, the document mutators, setQuestions, addPracticeExchange,
\* setAnalysisResults and the outline mutators
MutatorOps ==
    {"update", "addDocument", "updateDocument", "removeDocument", "setQuestions",
     "addPracticeExchange", "setAnalysisResults", "createOutline", "addOutlineSection",
     "updateOutlineSection", "reorderOutlineSections", "addQuestionToSection",
     "removeQuestionFromSection"}

MutatorCall == lastOp.op \in MutatorOps

\* every session stored before the call under another id is stored
\* unchanged, and no id was added
OthersUnchanged ==
    /\ MapKeys(Stored) \subseteq MapKeys(Before)
    /\ \A n \in 1..Len(Before) :
         Before[n].k # lastOp.id
         => (MapHas(Stored, Before[n].k) /\ MapGet(Stored, Before[n].k) = Before[n].v)

\* C27: a mutator call on one session leaves the persisted record of every
\* other session unchanged when no quota error occurs, and a call that
\* returns missing writes nothing and leaves the whole store unchanged.
C27_MutatorFrame ==
    MutatorCall
    => /\ lastOp.wrote \in {"first", "none", "skipped"} => OthersUnchanged
       /\ lastOp.ret = ReturnUndefined
          => (lastOp.wrote = "none" /\ store = lastOp.before)

\* a mutator changed one of two stored sessions and the other is as before
C27_Witness ==
    /\ MutatorCall
    /\ lastOp.wrote = "first"
    /\ Len(Before) >= 2
    /\ store # lastOp.before
    /\ OthersUnchanged

\* a mutator returned missing on a store that holds a session, which is as
\* before
C27_MissingWitness ==
    /\ MutatorCall
    /\ lastOp.ret = ReturnUndefined
    /\ lastOp.id # UnknownId
    /\ Len(Before) >= 1
    /\ store = lastOp.before

(***************************************************************************)
(* The mutated session and the quota retry                                 *)
(***************************************************************************)
\* a mutator returned a session and its last write went through
MutatedAndWritten ==
    /\ MutatorCall
    /\ lastOp.ret.kind = "session"
    /\ lastOp.wrote \in {"first", "retry"}

\* what get(id) returns from the store as it is: the stored record
GetNow(id) == IF MapHas(Stored, id) THEN ReturnSession(MapGet(Stored, id)) ELSE ReturnUndefined

\* C28: whenever a mutator returns a session and its final storage write
\* succeeded, at the first attempt or at the quota retry, get(id) then
\* returns that session with the mutation applied.
C28_NeverEvictsTarget ==
    /\ MutatedAndWritten => GetNow(lastOp.id) = ReadBack(lastOp.ret.v)
    /\ (lastOp.op = "get" /\ Prev.op = "update" /\ SameSession
            /\ Prev.ret.kind = "session" /\ Prev.wrote \in {"first", "retry"})
       => lastOp.ret = ReadBack(Prev.ret.v)

\* the part of C28 that holds: a write that succeeded at the first attempt
\* stores the returned session, and the retry stores it unless the session
\* is older than half the time to live
C28_KeptUnlessOld ==
    MutatedAndWritten
    => GetNow(lastOp.id) =
          IF lastOp.wrote = "retry" /\ lastOp.at - lastOp.ret.v.createdAt > SESSION_TTL_MS \div 2
          THEN ReturnUndefined
          ELSE ReadBack(lastOp.ret.v)

\* the retry of a mutator's write succeeded without the mutated session:
\* the call returned it, get(id) returns undefined
C28_Evicted ==
    /\ MutatedAndWritten
    /\ lastOp.wrote = "retry"
    /\ MapHas(Before, lastOp.id)
    /\ ~MapHas(Stored, lastOp.id)

\* get(id) after an update whose retry succeeded returned undefined
C28_GetAfterEviction ==
    /\ lastOp.op = "get"
    /\ Prev.op = "update"
    /\ SameSession
    /\ Prev.ret.kind = "session"
    /\ Prev.wrote = "retry"
    /\ lastOp.ret = ReturnUndefined

(***************************************************************************)
(* The questions of a successful question-generation response              *)
(***************************************************************************)
GenSucceeded == route = "generate" /\ apiPc = "done" /\ response.status = 200

\* the ids are values uuidv4() gave during the request, each used once
FreshIds(qs) ==
    /\ \A n \in 1..Len(qs) : \E k \in 0..(uuidNext - 1) : qs[n].id = Uuid(k)
    /\ \A n, m \in 1..Len(qs) : qs[n].id = qs[m].id => n = m

\* the questions came from the LLM's completion
FromLLM == GenSucceeded /\ ~response.usedFallback

\* C29: every question of a successful question-generation response has a
\* category and a difficulty of the schema, a question text that is not
\* empty, and an id generated by the handler, whatever the LLM returned.
C29_SchemaValid ==
    GenSucceeded
    => /\ \A n \in 1..Len(response.questions) :
            /\ response.questions[n].category \in ValidCategories
            /\ response.questions[n].difficulty \in ValidDifficulties
            /\ response.questions[n].question # <<>>
       /\ FreshIds(response.questions)

\* the part of C29 that holds: category, difficulty and id
C29_CategoryDifficultyId ==
    GenSucceeded
    => /\ \A n \in 1..Len(response.questions) :
            /\ response.questions[n].category \in ValidCategories
            /\ response.questions[n].difficulty \in ValidDifficulties
       /\ FreshIds(response.questions)

\* the LLM gave an item whose question is an empty array: the response
\* carries a question with an empty text
C29_EmptyQuestion ==
    /\ FromLLM
    /\ \E n \in 1..Len(response.questions) : response.questions[n].question = <<>>

\* an unknown category and a difficulty that is no string were replaced
C29_Defaulted ==
    /\ FromLLM
    /\ llmReply.content # <<>>
    /\ \E n \in 1..Len(response.questions) :
         /\ response.questions[n].category = C_general
         /\ response.questions[n].difficulty = D_medium


(***************************************************************************)
(* C30: the aiResponse of the practice endpoint                            *)
(***************************************************************************)
PracticeSucceeded == route = "practice" /\ apiPc = "done" /\ response.status = 200

\* the value has an own member with this key
HasMember(val, key) ==
    /\ val.t = "obj"
    /\ \E i \in 1..Len(val.v) : val.v[i].k = key

\* what lines 101-106 parse: the brace match if there is one, else the content
Parsed(c) == IF BraceMatch(c).has THEN JSONparse(BraceMatch(c).text) ELSE JSONparse(c)

\* the three cases of lines 74-120, by the outcome of the LLM call
AiResponseByCase ==
    PracticeSucceeded
    => /\ llmCalls = 1
       /\ (llmReply.kind # "ok" \/ llmReply.content = <<>>)
          => response.aiResponse = DefaultAiResponse
       /\ (llmReply.kind = "ok" /\ llmReply.content # <<>> /\ ~Parsed(llmReply.content).ok)
          => response.aiResponse = ContentAsFeedback(llmReply.content)
       /\ (llmReply.kind = "ok" /\ llmReply.content # <<>> /\ Parsed(llmReply.content).ok)
          => response.aiResponse = Parsed(llmReply.content).val

\* lines 40-45: a request without question or witnessResponse gets 400 and
\* no LLM call is made
RejectedBeforeLLM ==
    (/\ route = "practice"
     /\ req.kind = "json"
     /\ (Falsy(req.question) \/ Falsy(req.witnessResponse))
     /\ apiPc # "start")
    => /\ apiPc = "done"
       /\ response.status = 400
       /\ llmCalls = 0

\* C30: every success response of the practice endpoint carries an aiResponse
\* with a followUp and a feedback field (the defaults when the LLM call fails
\* or returns empty content, the default follow-up with the raw content as
\* feedback when the content is not parseable, the parsed value otherwise),
\* and a request missing question or witnessResponse is rejected with 400
\* before any LLM call
C30_FollowUpAndFeedback ==
    /\ AiResponseByCase
    /\ RejectedBeforeLLM
    /\ PracticeSucceeded
       => /\ HasMember(response.aiResponse, K_followUp)
          /\ HasMember(response.aiResponse, K_feedback)

\* the part of C30 that holds: the aiResponse by case, and the rejection
C30_ByCase == AiResponseByCase /\ RejectedBeforeLLM

\* the completion parsed to a value without followUp or feedback, and that
\* value is the aiResponse of a 200 response
C30_ParsedWithoutFields ==
    /\ PracticeSucceeded
    /\ llmReply.kind = "ok"
    /\ llmReply.content # <<>>
    /\ Parsed(llmReply.content).ok
    /\ ~HasMember(response.aiResponse, K_followUp)
    /\ ~HasMember(response.aiResponse, K_feedback)

\* the completion parsed to an object that has a followUp but no feedback
C30_FollowUpOnly ==
    /\ PracticeSucceeded
    /\ HasMember(response.aiResponse, K_followUp)
    /\ ~HasMember(response.aiResponse, K_feedback)

\* an unparseable completion became the feedback of the response
C30_RawAsFeedback ==
    /\ PracticeSucceeded
    /\ llmReply.kind = "ok"
    /\ llmReply.content # <<>>
    /\ response.aiResponse = ContentAsFeedback(llmReply.content)

\* a request without a witnessResponse was answered 400
C30_Rejected ==
    /\ route = "practice"
    /\ apiPc = "done"
    /\ req.kind = "json"
    /\ ~Falsy(req.question)
    /\ Falsy(req.witnessResponse)
    /\ response.status = 400

=============================================================================
